---------------------------- MODULE Spec2Model ----------------------------
(***************************************************************************)
(* A model of the request path engine of diillson/api-gateway-go:          *)
(*   - the circuit breaker (package resilience, pkg/telemetry/tracing.go), *)
(*     at the granularity of its lock operations, run by several           *)
(*     goroutines;                                                         *)
(*   - the reverse proxy and the dynamic-route handler that wrap every     *)
(*     upstream call in a breaker (internal/adapter/proxy/proxy.go,        *)
(*     Handler.ServeAPI);                                                  *)
(*   - the Redis rate limiter and the IP rate-limit policy                 *)
(*     (pkg/ratelimit/redis_limiter.go, RateLimitMiddleware.IPRateLimit).  *)
(* Each subsystem has its own specification over its own variables; the    *)
(* variables of the other subsystems stay at their initial values.         *)
(***************************************************************************)
EXTENDS Integers, Sequences, FiniteSets, TLC

(***************************************************************************)
(* Bounds of the model.                                                    *)
(***************************************************************************)
\* goroutines calling CircuitBreaker.Execute concurrently
NumGoroutines == 3
\* the clock of the breaker specification stops advancing at MaxClock
MaxClock == 3
\* the clock of the proxy specification stops advancing at MaxProxyClock
MaxProxyClock == 40
ProxyTick == 10
\* requests the proxy specification serves
MaxServed == 7
\* goroutines serving requests through a rate-limit policy concurrently
NumCallers == 2
\* requests the rate-limit specification starts
MaxCalls == 4
\* times the clock of the rate-limit specification advances
MaxTicks == 1
\* CircuitBreakerConfig.MaxRequestsFail of the breaker of specification Spec
MaxRequestsFail == 2
\* CircuitBreakerConfig.MaxRequests of the breaker of specification Spec
MaxRequests == 1
\* CircuitBreakerConfig.Timeout of the breaker of specification Spec
Timeout == 1

\* characters of the longest path MatchRoutePath is tried on
MaxPathLen == 4
\* operations of the route catalogue in one behaviour
MaxCatOps == 4
\* metrics updates waiting in goroutines at one time
MaxPending == 1
\* goroutines calling GetRouteByPath beside the writer
NumReaders == 2
\* calls of GetRouteByPath beside the writer in one behaviour
MaxReads == 3
\* calls of UpdateRoute and DeleteRoute beside the readers
MaxMutations == 2
\* admin requests in one behaviour
MaxAdminOps == 2
\* routes in the routes JSON file
MaxFileRoutes == 2
\* goroutines calling getCircuitBreaker concurrently
NumRequesters == 3
\* calls of getCircuitBreaker in one behaviour
MaxRegistryCalls == 4
\* readiness requests in one behaviour
MaxProbes == 2
\* requests that go through the handler chain in one behaviour
MaxHandled == 5

Goroutines == 1..NumGoroutines
Callers == 1..NumCallers

(***************************************************************************)
(* Program constants                                                       *)
(***************************************************************************)
\* NewCircuitBreaker: the defaults of a configuration left at zero
DefaultMaxRequestsFail == 5
DefaultTimeout == 30
DefaultMaxRequests == 1
\* ReverseProxy.getCircuitBreaker: the configuration of every breaker
ProxyMaxRequests == 5
ProxyTimeout == 30
\* RedisLimiter.Allow: the burst factor of a configuration that sets none,
\* in tenths (1.0)
DefaultBurstFactor == 10
\* IPRateLimit: the remaining budget below which the IP is blocked is
\* -SevereExcess; the block and its Retry-After last BlockSeconds
SevereExcess == 100
BlockSeconds == 600

(***************************************************************************)
(* CircuitState                                                            *)
(***************************************************************************)
StateClose == "closed"
StateOpen == "open"
StateHalfOpen == "half-open"

VARIABLES
    \* ---- shared by the specifications ----
    clock,         \* time.Now(), in seconds
    crashed,       \* the process died with a fatal runtime error
    \* ---- circuit breaker (one CircuitBreaker value, many goroutines) ----
    cb,            \* the CircuitBreaker struct
    readerCount,   \* cb.mutex: read locks currently counted by the RWMutex
    pc,            \* where each goroutine is inside Execute
    now,           \* allowRequest's local `now` of each goroutine
    allowed,       \* allowRequest's return value of each goroutine
    lastReturn,    \* what the Execute that returned last returned
    \* ---- history variables of the breaker (not program state) ----
    admittedIn,    \* the breaker state in which the goroutine's call was admitted
    consecFails,   \* failures recorded in closed since the last success / closing
    trials,        \* calls admitted since the last open -> half-open transition
    transitions,   \* open -> half-open transitions since the breaker last opened
    lastChange     \* <<from, to, by>> of the last change of cb.state

VARIABLES
    \* ---- reverse proxy and Handler.ServeAPI ----
    circuitBreakers,  \* ReverseProxy.circuitBreakers: serviceURL -> breaker
    served,           \* requests served so far
    response,         \* what the last request got and did
    \* ---- history variable of the proxy (not program state) ----
    transportFails    \* per serviceURL: transport failures in a row

VARIABLES
    \* ---- rate limiting (RedisLimiter and RateLimitMiddleware) ----
    policy,        \* the policy the requests go through
    limitConfig,   \* the LimitConfig the policy hands to Allow
    bucket,        \* the Redis key ratelimit:<Key>: its count and expiry
    blockedUntil,  \* the Redis key ratelimit:blocked:<ip>: its expiry, 0 if absent
    rpc,           \* where each caller is inside the policy
    readNow,       \* Allow's local `now` of each caller
    rlResponse,    \* what the request that ended in the last step got
    calls,         \* requests started so far
    ticks,         \* times the clock advanced so far
    \* ---- history variable of the limiter (not program state) ----
    incs           \* the window of the last INCR and the INCRs in that window

VARIABLES
    \* ---- model.MatchRoutePath applied to one pair of paths ----
    registeredPath,  \* the pattern, as its characters
    requestPath,     \* the request path, as its characters
    matchDone,       \* MatchRoutePath has returned
    matched          \* what it returned

VARIABLES
    \* ---- route catalogue (route.Service over RouteRepository and Cache) ----
    rows,            \* table routes: path -> row, NoRow when there is none
    cachedRoutes,    \* cache entry "routes"
    cachedRoute,     \* cache entries "route:<path>", by path
    pendingMetrics,  \* metrics updates ServeAPI has handed to goroutines
    catOps,          \* operations of the catalogue so far
    \* ---- history variables of the catalogue (not program state) ----
    requested,       \* per path: the route the administrator last sent
    since,           \* per path: the mutation since its last lookup
    lastCall         \* the last operation of the Service and its result

VARIABLES
    \* ---- the Director of doProxy applied to one request ----
    inbound,         \* the request of the client
    target,          \* the route: its serviceURL and its headers
    outreq,          \* the request sent to the upstream
    forwarded        \* proxy.ServeHTTP has sent it

VARIABLES
    \* ---- the handler chain of the gin engine, one request at a time ----
    handlers,        \* gin.Context.handlers of the request, <<>> when idle
    index,           \* the handler that runs next
    ran,             \* the policies and handlers that ran for the request
    written,         \* the status written to the client, 0 if none yet
    handled,         \* requests finished so far
    ctxUser          \* the role of the user Authenticate stored with c.Set

VARIABLES
    \* ---- HealthChecker.ReadinessCheck, one request at a time ----
    hpc,             \* where the goroutine of each check is
    checks,          \* the map checks: name -> "UP" / "DOWN", "" if unset
    hstatus,         \* the local variable status of ReadinessCheck
    readiness,       \* the status c.JSON wrote for the last request, 0 if none
    env,             \* what is up while the request is checked
    probes           \* readiness requests so far

VARIABLES
    \* ---- one call of Cache.Get on either cache ----
    cgEntry,         \* the value stored under the key, NoEntry if none
    cgDest,          \* the Go type dest points to
    redisUp,         \* whether the Redis server answers
    cgResult         \* the backend called and what Get returned

VARIABLES
    \* ---- ReverseProxy.getCircuitBreaker under concurrent callers ----
    regPc,           \* where each caller is in getCircuitBreaker
    regURL,          \* the serviceURL each caller asked for
    regSlow,         \* whether the caller went on to the write lock
    regGot,          \* the instance returned to each caller, 0 if none yet
    cbRegistry,      \* p.circuitBreakers: serviceURL -> instance, 0 if none
    cbLock,          \* p.cbLock: the readers and the writer holding it
    made,            \* breakers created so far for each serviceURL
    regCalls         \* calls of getCircuitBreaker so far

regVars == <<regPc, regURL, regSlow, regGot, cbRegistry, cbLock, made,
             regCalls>>
VARIABLES
    \* ---- the route descriptors written by the admin API and the loader ----
    descriptors,     \* the routes table: path -> descriptor, NoDescriptor
    adminStatus,     \* the status of the last admin response, 0 if none
    loaded,          \* whether LoadRoutesFromJSON has run
    adminOps         \* admin requests so far

VARIABLES
    \* ---- Service.GetRouteByPath beside Service.UpdateRoute/DeleteRoute ----
    storeRow,        \* the row of the path in the routes table, NoRow if none
    cacheEntry,      \* the cache entry "route:<path>", NoRow if absent
    rdPc,            \* where each reader is inside GetRouteByPath
    rdLoaded,        \* the route each reader took from repo.GetRoutes
    wrPc,            \* where the writer is inside UpdateRoute / DeleteRoute
    reads,           \* calls of GetRouteByPath so far
    mutations        \* calls of UpdateRoute and DeleteRoute so far

\* the in-flight gauge: gateway_active_requests by (path, method) label, the
\* request in the handler chain and where it stands in it
VARIABLES
    activeRequests, inFlight, chainPc

gaVars == <<activeRequests, inFlight, chainPc>>
rcVars == <<storeRow, cacheEntry, rdPc, rdLoaded, wrPc, reads, mutations>>
admVars == <<descriptors, adminStatus, loaded, adminOps>>
cgVars == <<cgEntry, cgDest, redisUp, cgResult>>
hVars == <<hpc, checks, hstatus, readiness, env, probes>>

cbVars == <<cb, readerCount, pc, now, allowed, lastReturn,
            admittedIn, consecFails, trials, transitions, lastChange>>

pxVars == <<circuitBreakers, served, response, transportFails>>
rlVars == <<policy, limitConfig, bucket, blockedUntil, rpc, readNow,
            rlResponse, incs, calls, ticks>>

plVars == <<handlers, index, ran, written, handled, ctxUser>>
dirVars == <<inbound, target, outreq, forwarded>>
mtVars == <<registeredPath, requestPath, matchDone, matched>>
catVars == <<rows, cachedRoutes, cachedRoute, pendingMetrics, catOps,
             requested, since, lastCall>>

\* the variables of the specifications defined after the limiter's
laterVars == <<mtVars, catVars, dirVars, plVars, hVars, cgVars, regVars, admVars, rcVars, gaVars>>
\* the variables each of these specifications leaves alone
notMatch == <<catVars, dirVars, plVars, hVars, cgVars, regVars, admVars, rcVars, gaVars>>
notCatalogue == <<mtVars, dirVars, plVars, hVars, cgVars, regVars, admVars, rcVars, gaVars>>
notDirector == <<mtVars, catVars, plVars, hVars, cgVars, regVars, admVars, rcVars, gaVars>>
notPipeline == <<mtVars, catVars, dirVars, hVars, cgVars, regVars, admVars, rcVars, gaVars>>
notHealth == <<mtVars, catVars, dirVars, plVars, cgVars, regVars, admVars, rcVars, gaVars>>
notCacheGet == <<mtVars, catVars, dirVars, plVars, hVars, regVars, admVars, rcVars, gaVars>>
notRegistry == <<mtVars, catVars, dirVars, plVars, hVars, cgVars, admVars, rcVars, gaVars>>
notAdmin == <<mtVars, catVars, dirVars, plVars, hVars, cgVars, regVars, rcVars, gaVars>>
notRace == <<mtVars, catVars, dirVars, plVars, hVars, cgVars, regVars, admVars, gaVars>>
notGauge == <<mtVars, catVars, dirVars, plVars, hVars, cgVars, regVars, admVars, rcVars>>

vars == <<clock, crashed, cbVars, pxVars, rlVars, laterVars>>

\* the variables the breaker specification leaves alone
notBreaker == <<pxVars, rlVars, laterVars>>

(***************************************************************************)
(* CircuitBreaker: the state transitions, as functions of the struct.     *)
(***************************************************************************)
NewCircuitBreaker(config) ==
    [maxFails    |-> IF config.MaxRequestsFail <= 0
                     THEN DefaultMaxRequestsFail ELSE config.MaxRequestsFail,
     timeout     |-> IF config.Timeout <= 0
                     THEN DefaultTimeout ELSE config.Timeout,
     maxRequests |-> IF config.MaxRequests <= 0
                     THEN DefaultMaxRequests ELSE config.MaxRequests,
     state |-> StateClose, failCount |-> 0, nextAttemptTime |-> 0,
     halfOpenRequests |-> 0]

toOpen(b, t) ==
    [b EXCEPT !.state = StateOpen, !.nextAttemptTime = t + b.timeout]

toHalfOpen(b, t) ==
    [b EXCEPT !.state = StateHalfOpen, !.halfOpenRequests = 0]

\* a closing that forgets to clear the failure counter
toCloseKeepsFailCount(b, t) ==
    [b EXCEPT !.state = StateClose]

toClose(b, t) ==
    [b EXCEPT !.state = StateClose, !.failCount = 0]

\* a recordResult that also counts the failure of a half-open trial
recordResultCountsTrial(b, ok, t) ==
    CASE b.state = StateClose ->
            IF ~ok
            THEN LET c == [b EXCEPT !.failCount = b.failCount + 1]
                 IN  IF c.failCount >= b.maxFails THEN toOpen(c, t) ELSE c
            ELSE [b EXCEPT !.failCount = 0]
      [] b.state = StateHalfOpen ->
            IF ok THEN toClose(b, t)
            ELSE toOpen([b EXCEPT !.failCount = b.failCount + 1], t)
      [] OTHER -> b

\* the threshold test written with > instead of >=
recordResultOffByOne(b, ok, t) ==
    CASE b.state = StateClose ->
            IF ~ok
            THEN LET c == [b EXCEPT !.failCount = b.failCount + 1]
                 IN  IF c.failCount > b.maxFails THEN toOpen(c, t) ELSE c
            ELSE [b EXCEPT !.failCount = 0]
      [] b.state = StateHalfOpen ->
            IF ok THEN toClose(b, t) ELSE toOpen(b, t)
      [] OTHER -> b

recordResult(b, ok, t) ==
    CASE b.state = StateClose ->
            IF ~ok
            THEN LET c == [b EXCEPT !.failCount = b.failCount + 1]
                 IN  IF c.failCount >= b.maxFails THEN toOpen(c, t) ELSE c
            ELSE [b EXCEPT !.failCount = 0]
      [] b.state = StateHalfOpen ->
            IF ok THEN toClose(b, t) ELSE toOpen(b, t)
      [] OTHER -> b

\* time.Time.After
After(t, u) == t > u

\* The switch of allowRequest under the read lock: "allow" and "reject" return
\* through the deferred RUnlock, "upgrade" gives up the read lock for the
\* write lock.
allowSwitch(b, t) ==
    CASE b.state = StateClose -> "allow"
      [] b.state = StateOpen ->
            IF After(t, b.nextAttemptTime) THEN "upgrade" ELSE "reject"
      [] b.state = StateHalfOpen ->
            IF b.halfOpenRequests < b.maxRequests THEN "allow" ELSE "reject"
      [] OTHER -> "reject"

\* The second check of allowRequest, under the write lock.
allowRecheck(b, t) ==
    b.state = StateOpen /\ After(t, b.nextAttemptTime)

(***************************************************************************)
(* Initial state                                                           *)
(***************************************************************************)
\* the configuration of the breaker of specification Spec
BreakerConfig ==
    [MaxRequestsFail |-> MaxRequestsFail, Timeout |-> Timeout,
     MaxRequests |-> MaxRequests]

InitShared ==
    /\ clock = 0
    /\ crashed = FALSE

InitBreaker ==
    /\ cb = NewCircuitBreaker(BreakerConfig)
    /\ readerCount = 0
    /\ pc = [g \in Goroutines |-> "idle"]
    /\ now = [g \in Goroutines |-> 0]
    /\ allowed = [g \in Goroutines |-> FALSE]
    /\ admittedIn = [g \in Goroutines |-> "none"]
    /\ lastReturn = "none"
    /\ consecFails = 0
    /\ trials = 0
    /\ transitions = 0
    /\ lastChange = <<"none", StateClose, "NewCircuitBreaker">>

\* the routes the proxy specification serves: E1 and E3 of the
\* specification's scenarios, and a route whose serviceURL url.Parse rejects
\* (the JSON route loader stores routes without Route.Validate)
Routes ==
    { [path |-> "/api/users", serviceURL |-> "http://u:9000",
       methods |-> {"GET"}, requiredHeaders |-> {}, isActive |-> TRUE],
      [path |-> "/api/*", serviceURL |-> "http://x:1",
       methods |-> {"GET"}, requiredHeaders |-> {}, isActive |-> FALSE],
      [path |-> "/api/legacy", serviceURL |-> "http://%zz",
       methods |-> {"GET", "POST"}, requiredHeaders |-> {"X-Api-Key"},
       isActive |-> TRUE] }

ServiceURLs == {r.serviceURL : r \in Routes}

HTTPMethods == {"GET", "POST"}

\* the sets of required headers a request may carry with a non-empty value
HeaderSets == SUBSET {"X-Api-Key"}

\* what the dial of the upstream ends in
TransportErrors ==
    {"context deadline exceeded", "connection refused", "no such host",
     "unexpected EOF"}
UpstreamOutcomes == {"response"} \cup TransportErrors

NoResponse ==
    [status |-> 0, body |-> "", serviceURL |-> "", contacted |-> FALSE,
     outcome |-> "", err |-> "nil"]

InitProxy ==
    /\ circuitBreakers = <<>>
    /\ served = 0
    /\ response = NoResponse
    /\ transportFails = [u \in ServiceURLs |-> 0]

\* LimitConfig of IPRateLimit and of UserRateLimit; Period in milliseconds,
\* BurstFactor in tenths
IPConfig ==
    [Key |-> "ip", Limit |-> 100, Period |-> 60000, BurstFactor |-> 15]
UserConfig ==
    [Key |-> "user", Limit |-> 1000, Period |-> 60000, BurstFactor |-> 15]

\* the limits and periods APIRateLimit is built with, and the burst factors
\* of a direct call of Allow
Limits == {0, 2}
Periods == {-1000, 500, 2000}
BurstFactors == {0, 15}

APIConfigs ==
    {[Key |-> "api", Limit |-> l, Period |-> p, BurstFactor |-> 12] :
        l \in Limits, p \in Periods}
AllowConfigs ==
    {[Key |-> "k", Limit |-> l, Period |-> p, BurstFactor |-> b] :
        l \in Limits, p \in Periods, b \in BurstFactors}

NoBucket == [count |-> 0, expireAt |-> 0]

\* a policy, its configuration and the bucket the store holds at the start:
\* none, or the bucket of a window that has already counted requests
LimiterStarts ==
    {<<"ip", IPConfig, [count |-> 199, expireAt |-> 60]>>,
     <<"user", UserConfig, NoBucket>>}
    \cup {<<"api", c, NoBucket>> : c \in APIConfigs}
    \cup {<<"allow", c, NoBucket>> : c \in AllowConfigs}

NoAllow ==
    [status |-> 0, retryAfter |-> 0, headers |-> FALSE, next |-> FALSE,
     cause |-> "none", allowed |-> TRUE, limit |-> 0, remaining |-> 0,
     resetAfter |-> 0, err |-> "nil", store |-> "none", lookup |-> "none"]

InitLimiter(starts) ==
    /\ \E s \in starts :
          /\ policy = s[1]
          /\ limitConfig = s[2]
          /\ bucket = s[3]
          /\ incs = [window |-> 0, n |-> s[3].count]
    /\ blockedUntil = 0
    /\ rpc = [c \in Callers |-> "idle"]
    /\ readNow = [c \in Callers |-> 0]
    /\ rlResponse = NoAllow
    /\ calls = 0
    /\ ticks = 0

\* the characters MatchRoutePath is tried on, and the paths it is tried on:
\* every string of at most MaxPathLen of them that starts with a slash
PathChars == {"/", "a", ":", "*"}

RECURSIVE StringsOfLen(_)
StringsOfLen(n) ==
    IF n = 0 THEN {<<>>}
    ELSE {Append(s, ch) : s \in StringsOfLen(n - 1), ch \in PathChars}

PathStrings ==
    {s \in UNION {StringsOfLen(n) : n \in 1..MaxPathLen} : s[1] = "/"}

InitMatch ==
    /\ registeredPath = <<>>
    /\ requestPath = <<>>
    /\ matchDone = FALSE
    /\ matched = FALSE

\* the paths of the catalogue specification: the patterns the administrator
\* registers and the paths clients request
Patterns == {"/a/b", "/a/:x", "/a/*"}
RequestPaths == {"/a/b", "/a/c"}
CatalogPaths == Patterns \cup RequestPaths

\* a path of the catalogue specification as its characters
chars(path) ==
    CASE path = "/a/b"  -> <<"/", "a", "/", "b">>
      [] path = "/a/c"  -> <<"/", "a", "/", "c">>
      [] path = "/a/:x" -> <<"/", "a", "/", ":", "x">>
      [] path = "/a/*"  -> <<"/", "a", "/", "*">>
      [] OTHER          -> <<>>

\* time.Since(start) of a proxied request
Durations == {1, 3}

\* no row of the table, no model.Route
NoRow ==
    [path |-> "", serviceURL |-> "", methods |-> {}, requiredHeaders |-> {},
     isActive |-> FALSE, callCount |-> 0, totalResponse |-> 0]

\* cache entry "routes" when nothing is cached under it
\* the expiry the Service gives its cache entries, in minutes
RouteTTL == 5
\* a cache.Set(key, value, ttl) that took effect; the key is "routes" or
\* "route:" followed by the path
CacheSet(key, path) == <<[key |-> key, path |-> path, ttl |-> RouteTTL]>>

NoList == [found |-> FALSE, routes |-> <<>>]

NoCall ==
    [op |-> "", path |-> "", err |-> "nil", route |-> NoRow,
     fromCache |-> FALSE, storeUp |-> TRUE, sinceOp |-> "",
     before |-> NoRow, active |-> <<>>, duration |-> 0,
     repo |-> <<>>, stored |-> <<>>]

NoMutation == [op |-> "", before |-> NoRow]

InitCatalogue ==
    /\ rows = [p \in Patterns |-> NoRow]
    /\ cachedRoutes = NoList
    /\ cachedRoute = [p \in CatalogPaths |-> NoRow]
    /\ pendingMetrics = <<>>
    /\ catOps = 0
    /\ requested = [p \in Patterns |-> NoRow]
    /\ since = [p \in CatalogPaths |-> NoMutation]
    /\ lastCall = NoCall

\* an address as net/http writes it: "ip:port", or "ip" when port is ""
Addr(ip, port) == [ip |-> ip, port |-> port]

\* the requests of the Director specification
ClientIPs == {"10.0.0.1", "10.0.0.2"}
ClientPorts == {"54321", "80"}
InboundHosts == {"gw.local", "api.example"}
InboundPaths == {"/api/users", "/api/x"}
InboundQueries == {"", "a=1"}
\* the headers a route may list, and the values a client sends
ForwardHeaders == {"X-Tenant"}
HeaderValues == {"", "t1"}
InboundRequests ==
    [RemoteAddr : {Addr(ip, port) : ip \in ClientIPs, port \in ClientPorts},
     Host : InboundHosts, Path : InboundPaths, RawQuery : InboundQueries,
     Header : [ForwardHeaders -> HeaderValues],
     XForwardedFor : {<<>>, <<Addr("192.0.2.7", "")>>},
     XForwardedHost : {""}]
DirectorRoutes ==
    [serviceURL : {"http://u:9000", "http://x:1"},
     headers : SUBSET ForwardHeaders]

NoRequest ==
    [RemoteAddr |-> Addr("", ""), Host |-> "", Path |-> "", RawQuery |-> "",
     Header |-> [h \in ForwardHeaders |-> ""], XForwardedFor |-> <<>>,
     XForwardedHost |-> ""]

InitDirector ==
    /\ inbound = NoRequest
    /\ target = [serviceURL |-> "", headers |-> {}]
    /\ outreq = NoRequest
    /\ forwarded = FALSE

InitPipeline ==
    /\ handlers = <<>>
    /\ index = 0
    /\ ran = <<>>
    /\ written = 0
    /\ handled = 0
    /\ ctxUser = ""

\* c.FullPath() of the route the router registers for ServeAPI
FullPath == "/api/*path"

\* the request paths of the gauge specification
GaugeRequestPaths == {"/api/users", "/api/legacy", "/api/other"}

GaugeLabels ==
    (GaugeRequestPaths \cup {r.path : r \in Routes} \cup {FullPath})
        \X HTTPMethods

NoInFlight == [path |-> "", method |-> ""]

InitGauge ==
    /\ activeRequests = [l \in GaugeLabels |-> 0]
    /\ inFlight = NoInFlight
    /\ chainPc = "idle"

Readers == 1..NumReaders
\* the path the readers ask for and the writer changes
RacePath == "/a/b"
\* the row registered at the path before the requests start
RegisteredRow ==
    [path |-> RacePath, serviceURL |-> "http://u:9000", methods |-> {"GET"},
     requiredHeaders |-> {}, isActive |-> TRUE, callCount |-> 0,
     totalResponse |-> 0]

InitRace ==
    /\ storeRow = RegisteredRow
    /\ cacheEntry = NoRow
    /\ rdPc = [r \in Readers |-> "idle"]
    /\ rdLoaded = [r \in Readers |-> NoRow]
    /\ wrPc = "idle"
    /\ reads = 0
    /\ mutations = 0

\* the fields of the descriptors sent to the admin API or written in the
\* routes file: an empty and a set path; an empty serviceURL, one that
\* url.Parse rejects, a relative reference and an absolute URL; no method
\* and one
DescriptorPaths == {"", "/a"}
DescriptorURLs == {"", "http://%zz", "backend/api", "http://a"}
DescriptorMethods == {{}, {"GET"}}
Descriptors ==
    [path : DescriptorPaths, serviceURL : DescriptorURLs,
     methods : DescriptorMethods]
NoDescriptor == [path |-> "none", serviceURL |-> "", methods |-> {}]
\* the contents of the routes JSON file
RouteFiles ==
    UNION {[1..n -> Descriptors] : n \in 1..MaxFileRoutes}

InitAdmin ==
    /\ descriptors = [p \in DescriptorPaths |-> NoDescriptor]
    /\ adminStatus = 0
    /\ loaded = FALSE
    /\ adminOps = 0

Requesters == 1..NumRequesters
\* the serviceURLs the callers ask breakers for
RegistryURLs == {"http://a", "http://b"}

InitRegistry ==
    /\ regPc = [g \in Requesters |-> "idle"]
    /\ regURL = [g \in Requesters |-> "http://a"]
    /\ regSlow = [g \in Requesters |-> FALSE]
    /\ regGot = [g \in Requesters |-> 0]
    /\ cbRegistry = [u \in RegistryURLs |-> 0]
    /\ cbLock = [readers |-> {}, writer |-> 0]
    /\ made = [u \in RegistryURLs |-> 0]
    /\ regCalls = 0

\* the Go types the gateway stores in and reads from its cache
GoTypes == {"string", "int", "bool", "float64", "Route", "[]*Route"}
\* the values stored: one per type, and for float64 one with a fraction
\* and one without
StoredValues ==
    {[type |-> t, integral |-> i] : t \in GoTypes \ {"int", "float64"},
                                     i \in {FALSE}}
        \cup {[type |-> "int", integral |-> TRUE]}
        \cup {[type |-> "float64", integral |-> i] : i \in BOOLEAN}
NoEntry == [type |-> "", integral |-> FALSE]
NoGet == [backend |-> "", found |-> FALSE, err |-> "nil", assigned |-> FALSE]

InitCacheGet ==
    /\ cgEntry = NoEntry
    /\ cgDest = "string"
    /\ redisUp = TRUE
    /\ cgResult = NoGet

\* the checks of ReadinessCheck: the dependencies and the router
HealthChecks == {"database", "cache", "router"}
\* Dependency.Critical, and "critical": true of the router check
Critical(d) == d \in {"database", "router"}

NoEnv == [dbUp |-> TRUE, cacheUp |-> TRUE, hit |-> FALSE]

InitHealth ==
    /\ hpc = [d \in HealthChecks |-> "idle"]
    /\ checks = [d \in HealthChecks |-> ""]
    /\ hstatus = 200
    /\ readiness = 0
    /\ env = NoEnv
    /\ probes = 0

InitLater ==
    /\ InitMatch /\ InitCatalogue /\ InitDirector /\ InitPipeline
    /\ InitHealth /\ InitCacheGet /\ InitRegistry
    /\ InitAdmin /\ InitRace /\ InitGauge

Init ==
    /\ InitShared /\ InitBreaker /\ InitProxy
    /\ InitLimiter({<<"user", UserConfig, NoBucket>>})
    /\ InitLater

InitRateLimit ==
    /\ InitShared /\ InitBreaker /\ InitProxy
    /\ InitLimiter(LimiterStarts)
    /\ InitLater

(***************************************************************************)
(* sync.RWMutex.RUnlock by goroutine g, continuing at `next`: releasing a  *)
(* read lock the mutex does not count is a fatal runtime error             *)
(* ("sync: RUnlock of unlocked RWMutex"), which ends the process.          *)
(***************************************************************************)
RUnlock(g, next) ==
    IF readerCount = 0
    THEN /\ crashed' = TRUE
         /\ pc' = [pc EXCEPT ![g] = "fatal"]
         /\ UNCHANGED readerCount
    ELSE /\ readerCount' = readerCount - 1
         /\ pc' = [pc EXCEPT ![g] = next]
         /\ UNCHANGED crashed

\* the history of cb.state, kept beside every step that may change it
Record(b, by) ==
    /\ lastChange' = IF b.state # cb.state THEN <<cb.state, b.state, by>>
                     ELSE lastChange
    /\ transitions' = CASE b.state = StateOpen /\ cb.state # StateOpen -> 0
                        [] b.state = StateHalfOpen /\ cb.state = StateOpen ->
                              transitions + 1
                        [] OTHER -> transitions

\* Execute enters allowRequest: mutex.RLock(), now := time.Now()
AllowRequestRLock(g) ==
    /\ ~crashed
    /\ pc[g] = "idle"
    /\ readerCount' = readerCount + 1
    /\ now' = [now EXCEPT ![g] = clock]
    /\ pc' = [pc EXCEPT ![g] = "rlocked"]
    /\ UNCHANGED <<cb, clock, crashed, allowed, lastReturn, admittedIn,
                   consecFails, trials, transitions, lastChange, notBreaker>>

\* allowRequest: the switch on cb.state, then either the return (the
\* deferred RUnlock; Execute returns ErrCircuitOpen on false) or the explicit
\* RUnlock before mutex.Lock()
AllowRequestSwitch(g) ==
    /\ ~crashed
    /\ pc[g] = "rlocked"
    /\ LET d == allowSwitch(cb, now[g]) IN
         /\ allowed' = [allowed EXCEPT ![g] = (d = "allow")]
         /\ RUnlock(g, CASE d = "allow" -> "fn"
                         [] d = "upgrade" -> "wantLock"
                         [] OTHER -> "idle")
         /\ lastReturn' = IF d = "reject" /\ readerCount > 0
                          THEN "ErrCircuitOpen" ELSE lastReturn
         /\ admittedIn' = [admittedIn EXCEPT ![g] =
                              IF d = "allow" THEN cb.state ELSE "none"]
         /\ trials' = IF d = "allow" /\ cb.state = StateHalfOpen
                         /\ readerCount > 0
                      THEN trials + 1 ELSE trials
         /\ now' = [now EXCEPT ![g] = IF d = "upgrade" THEN now[g] ELSE 0]
    /\ UNCHANGED <<cb, clock, consecFails, transitions, lastChange,
                   notBreaker>>

\* allowRequest: mutex.Lock(), the second check, toHalfOpen, and the first
\* deferred call, mutex.Unlock()
AllowRequestUpgrade(g) ==
    /\ ~crashed
    /\ pc[g] = "wantLock"
    /\ readerCount = 0
    /\ LET ok == allowRecheck(cb, now[g])
           b  == IF ok THEN toHalfOpen(cb, now[g]) ELSE cb
       IN
         /\ cb' = b
         /\ Record(b, "allowRequest")
         /\ allowed' = [allowed EXCEPT ![g] = ok]
         /\ admittedIn' = [admittedIn EXCEPT ![g] =
                              IF ok THEN StateHalfOpen ELSE "none"]
         /\ trials' = IF ok THEN 1 ELSE trials
    /\ pc' = [pc EXCEPT ![g] = "deferred"]
    /\ now' = [now EXCEPT ![g] = 0]
    /\ UNCHANGED <<readerCount, clock, crashed, lastReturn, consecFails,
                   notBreaker>>

\* allowRequest: the second deferred call, the mutex.RUnlock() registered on
\* entry, which runs although the read lock was already given up; then
\* Execute goes on to fn, or returns ErrCircuitOpen
AllowRequestDeferredRUnlock(g) ==
    /\ ~crashed
    /\ pc[g] = "deferred"
    /\ RUnlock(g, IF allowed[g] THEN "fn" ELSE "idle")
    /\ lastReturn' = IF ~allowed[g] /\ readerCount > 0
                     THEN "ErrCircuitOpen" ELSE lastReturn
    /\ UNCHANGED <<cb, clock, now, allowed, admittedIn,
                   consecFails, trials, transitions, lastChange, notBreaker>>

\* Execute: result, err := fn(childCtx), then cb.recordResult(err == nil)
\* under mutex.Lock(), then return result, err
CallFnRecordResult(g) ==
    /\ ~crashed
    /\ pc[g] = "fn"
    /\ readerCount = 0
    /\ \E ok \in BOOLEAN :
         LET b == recordResult(cb, ok, clock) IN
           /\ cb' = b
           /\ Record(b, "recordResult")
           /\ consecFails' = CASE cb.state = StateClose ->
                                    IF ok THEN 0 ELSE consecFails + 1
                               [] b.state = StateClose -> 0
                               [] OTHER -> consecFails
           /\ trials' = IF b.state = StateHalfOpen THEN trials ELSE 0
           /\ lastReturn' = IF ok THEN "ok" ELSE "err"
    /\ pc' = [pc EXCEPT ![g] = "idle"]
    /\ allowed' = [allowed EXCEPT ![g] = FALSE]
    /\ admittedIn' = [admittedIn EXCEPT ![g] = "none"]
    /\ UNCHANGED <<readerCount, clock, crashed, now, notBreaker>>

\* CircuitBreaker.Reset, under mutex.Lock()
Reset ==
    /\ ~crashed
    /\ readerCount = 0
    /\ LET b == toClose(cb, clock) IN
         /\ cb' = b
         /\ Record(b, "Reset")
    /\ consecFails' = 0
    /\ trials' = 0
    /\ UNCHANGED <<readerCount, clock, crashed, pc, now, allowed, lastReturn,
                   admittedIn, notBreaker>>

\* time passes
Tick ==
    /\ ~crashed
    /\ clock < MaxClock
    /\ clock' = clock + 1
    /\ UNCHANGED <<crashed, cbVars, notBreaker>>

Next ==
    \/ \E g \in Goroutines : AllowRequestRLock(g)
    \/ \E g \in Goroutines : AllowRequestSwitch(g)
    \/ \E g \in Goroutines : AllowRequestUpgrade(g)
    \/ \E g \in Goroutines : AllowRequestDeferredRUnlock(g)
    \/ \E g \in Goroutines : CallFnRecordResult(g)
    \/ Reset
    \/ Tick

Spec == Init /\ [][Next]_vars

(***************************************************************************)
(* The reverse proxy: ReverseProxy.ProxyRequest / doProxy and the handler  *)
(* of the dynamic routes, Handler.ServeAPI.  A request is served in one    *)
(* step, with no other request inside the breaker at the same time.        *)
(***************************************************************************)

\* url.Parse(route.ServiceURL) succeeds
urlParses(serviceURL) == serviceURL # "http://%zz"

\* ReverseProxy.getCircuitBreaker: the registry with the breaker of
\* serviceURL in it, created on first use
getCircuitBreaker(registry, serviceURL) ==
    IF serviceURL \in DOMAIN registry
    THEN registry
    ELSE registry @@
         (serviceURL :> NewCircuitBreaker(
              [MaxRequestsFail |-> 0, Timeout |-> ProxyTimeout,
               MaxRequests |-> ProxyMaxRequests]))

\* allowRequest run by a goroutine that has the breaker to itself: the
\* path that moves open -> half-open ends in the deferred RUnlock of a read
\* lock already given up, a fatal error
allowRequestAlone(b, t) ==
    LET d == allowSwitch(b, t) IN
    CASE d = "allow"  -> [allowed |-> TRUE, cb |-> b, fatal |-> FALSE]
      [] d = "reject" -> [allowed |-> FALSE, cb |-> b, fatal |-> FALSE]
      [] OTHER ->
            LET ok == allowRecheck(b, t) IN
            [allowed |-> ok, cb |-> IF ok THEN toHalfOpen(b, t) ELSE b,
             fatal |-> TRUE]

\* the ErrorHandler of doProxy: error type and status of a transport error
classifyError(e) ==
    CASE e = "context deadline exceeded" ->
            [errorType |-> "timeout_error", statusCode |-> 504]
      [] e = "connection refused" ->
            [errorType |-> "connection_refused", statusCode |-> 503]
      [] e = "no such host" ->
            [errorType |-> "host_not_found", statusCode |-> 502]
      [] OTHER -> [errorType |-> "proxy_error", statusCode |-> 502]

\* doProxy: what is written to the client, whether the upstream was dialled,
\* and the error handed back to Execute (the value after proxy.ServeHTTP is
\* nil, nil whatever the ErrorHandler saw)
doProxy(route, upstream) ==
    IF ~urlParses(route.serviceURL)
    THEN [status |-> 500, body |-> "Erro interno do servidor",
          contacted |-> FALSE, outcome |-> "", err |-> "parse error"]
    ELSE IF upstream = "response"
    THEN [status |-> 200, body |-> "upstream",
          contacted |-> TRUE, outcome |-> upstream, err |-> "nil"]
    ELSE [status |-> classifyError(upstream).statusCode,
          body |-> classifyError(upstream).errorType,
          contacted |-> TRUE, outcome |-> upstream, err |-> "nil"]

\* ProxyRequest: the breaker of route.ServiceURL, Execute around doProxy
ProxyRequest(registry, route, upstream, t) ==
    LET reg == getCircuitBreaker(registry, route.serviceURL)
        b   == reg[route.serviceURL]
        a   == allowRequestAlone(b, t)
        r   == doProxy(route, upstream)
    IN  IF a.fatal
        THEN [registry |-> [reg EXCEPT ![route.serviceURL] = a.cb],
              fatal |-> TRUE, wrote |-> FALSE, result |-> NoResponse]
        ELSE IF ~a.allowed
        THEN [registry |-> reg, fatal |-> FALSE, wrote |-> FALSE,
              result |-> [NoResponse EXCEPT !.err = "ErrCircuitOpen"]]
        ELSE [registry |-> [reg EXCEPT ![route.serviceURL] =
                               recordResult(a.cb, r.err = "nil", t)],
              fatal |-> FALSE, wrote |-> TRUE,
              result |-> [status |-> r.status, body |-> r.body,
                          serviceURL |-> route.serviceURL,
                          contacted |-> r.contacted, outcome |-> r.outcome,
                          err |-> r.err]]

\* IsMethodAllowed that lets every method through
IsMethodAllowedAny(route, method) == TRUE

\* Route.IsMethodAllowed
IsMethodAllowed(route, method) == method \in route.methods

\* Route.HasRequiredHeaders, on the required headers the request carries
\* with a non-empty value
HasRequiredHeaders(route, headers) == route.requiredHeaders \subseteq headers

\* GetRouteByPath found no route for the request path (any error of the
\* lookup is answered alike)
RouteNotFound ==
    [path |-> "", serviceURL |-> "", methods |-> {}, requiredHeaders |-> {},
     isActive |-> FALSE]

\* a response written by ServeAPI itself
Answer(status, body) ==
    [NoResponse EXCEPT !.status = status, !.body = body]

\* Handler.ServeAPI, from the route lookup to the response; a handler that
\* returns without writing leaves the framework's empty 200
ServeAPI(lookup, method, headers, upstream) ==
    /\ ~crashed
    /\ served < MaxServed
    /\ served' = served + 1
    /\ IF lookup = RouteNotFound
       THEN /\ response' = Answer(404, "API not found")
            /\ UNCHANGED <<circuitBreakers, crashed, transportFails>>
       ELSE IF ~lookup.isActive
       THEN /\ response' = Answer(503, "API não disponível")
            /\ UNCHANGED <<circuitBreakers, crashed, transportFails>>
       ELSE IF ~IsMethodAllowed(lookup, method)
       THEN /\ response' = Answer(405, "Method not allowed")
            /\ UNCHANGED <<circuitBreakers, crashed, transportFails>>
       ELSE IF ~HasRequiredHeaders(lookup, headers)
       THEN /\ response' = Answer(400, "Missing required headers")
            /\ UNCHANGED <<circuitBreakers, crashed, transportFails>>
       ELSE LET p == ProxyRequest(circuitBreakers, lookup, upstream,
                                  clock)
                u == lookup.serviceURL
            IN  /\ circuitBreakers' = p.registry
                /\ crashed' = p.fatal
                /\ response' =
                      IF p.fatal THEN NoResponse
                      ELSE IF p.wrote THEN p.result
                      ELSE [p.result EXCEPT !.status = 200,
                                            !.serviceURL = u]
                /\ transportFails' =
                      IF p.fatal \/ ~p.wrote THEN transportFails
                      ELSE [transportFails EXCEPT ![u] =
                              IF p.result.outcome \in TransportErrors
                              THEN @ + 1 ELSE 0]
    /\ UNCHANGED <<clock, cbVars, rlVars>>

\* time passes
TickProxy ==
    /\ ~crashed
    /\ clock + ProxyTick <= MaxProxyClock
    /\ clock' = clock + ProxyTick
    /\ UNCHANGED <<crashed, cbVars, pxVars, rlVars, laterVars>>

NextProxy ==
    \/ \E lookup \in Routes \cup {RouteNotFound}, method \in HTTPMethods,
          headers \in HeaderSets, upstream \in UpstreamOutcomes :
          ServeAPI(lookup, method, headers, upstream) /\ UNCHANGED laterVars
    \/ TickProxy

SpecProxy == Init /\ [][NextProxy]_vars

(***************************************************************************)
(* Rate limiting: RedisLimiter.Allow and the policies IPRateLimit,         *)
(* APIRateLimit and UserRateLimit of RateLimitMiddleware.  Allow reads the *)
(* clock in the gateway and then runs its script in the store, one atomic  *)
(* step of the store; callers interleave between the two.                  *)
(***************************************************************************)

\* periodSeconds := int64(config.Period.Seconds())
periodSeconds(config) == config.Period \div 1000

\* expireAt := now - (now % periodSeconds) + periodSeconds
expireAtOf(config, t) ==
    t - (t % periodSeconds(config)) + periodSeconds(config)

\* burstLimit := int(float64(config.Limit) * config.BurstFactor), the factor
\* defaulted to 1.0 when it is not positive
burstLimit(config) ==
    (config.Limit *
       (IF config.BurstFactor <= 0 THEN DefaultBurstFactor
        ELSE config.BurstFactor)) \div 10

\* the checks of Limit and Period at the head of Allow
validationError(config) ==
    IF config.Limit <= 0 THEN "invalid limit"
    ELSE IF config.Period <= 0 THEN "invalid period"
    ELSE "nil"

\* what Allow returns on a validation error
allowInvalid(err) ==
    [allowed |-> TRUE, limit |-> 0, remaining |-> 0, resetAfter |-> 0,
     err |-> err]

scriptErrorFailClosed(config, resetAfter, err) ==
    [allowed |-> FALSE, limit |-> config.Limit, remaining |-> config.Limit,
     resetAfter |-> resetAfter, err |-> err]

\* what Allow returns when the script fails or its result is not an array of
\* three
scriptError(config, resetAfter, err) ==
    [allowed |-> TRUE, limit |-> config.Limit, remaining |-> config.Limit,
     resetAfter |-> resetAfter, err |-> err]

\* the key is in the store at time t
live(b, t) == b.count > 0 /\ t < b.expireAt

\* the Lua script, run by the store at time t with the caller's limit,
\* expireAt and now: INCR, EXPIREAT on the first count (a time that is not in
\* the future deletes the key), and the reply {count, remaining, ttl}
script(b, limit, expireAt, nowArg, t) ==
    LET count == IF live(b, t) THEN b.count + 1 ELSE 1 IN
    [bucket |-> IF count = 1
                THEN IF expireAt <= t THEN NoBucket
                     ELSE [count |-> 1, expireAt |-> expireAt]
                ELSE [b EXCEPT !.count = count],
     count |-> count,
     remaining |-> limit - count,
     ttl |-> expireAt - nowArg]

\* what Allow returns from the reply of the script
allowResult(config, r) ==
    [allowed |-> r.count <= burstLimit(config), limit |-> config.Limit,
     remaining |-> r.remaining, resetAfter |-> r.ttl, err |-> "nil"]

severeExcessAnyExcess(isAllowed, remaining) ==
    ~isAllowed /\ remaining < 0

\* IPRateLimit: !allowed && remaining < -100
severeExcess(isAllowed, remaining) ==
    ~isAllowed /\ remaining < -SevereExcess

\* the answer of a policy to what Allow returned: c.Next() on an error, the
\* block of IPRateLimit, 429 with the rate-limit headers, or c.Next(); a
\* direct call of Allow only returns
answer(pol, a, store) ==
    LET base == [NoAllow EXCEPT !.allowed = a.allowed, !.limit = a.limit,
                                !.remaining = a.remaining,
                                !.resetAfter = a.resetAfter, !.err = a.err,
                                !.store = store]
    IN  IF pol = "allow" THEN [base EXCEPT !.cause = "returned"]
        ELSE IF a.err # "nil"
        THEN [base EXCEPT !.next = TRUE, !.cause = "error"]
        ELSE IF pol = "ip" /\ severeExcess(a.allowed, a.remaining)
        THEN [base EXCEPT !.status = 429, !.retryAfter = BlockSeconds,
                          !.cause = "severe"]
        ELSE IF ~a.allowed
        THEN [base EXCEPT !.status = 429, !.retryAfter = a.resetAfter,
                          !.headers = TRUE, !.cause = "limit"]
        ELSE [base EXCEPT !.next = TRUE, !.headers = TRUE,
                          !.cause = "admitted"]

\* a request enters a policy
Enters(c) ==
    /\ ~crashed
    /\ rpc[c] = "idle"
    /\ calls < MaxCalls
    /\ calls' = calls + 1

\* IPRateLimit up to the call of Allow: the read of the block key, whose
\* error is dropped, and the 429 of a blocked IP
IPRateLimitLookup(c, storeUp) ==
    /\ Enters(c)
    /\ policy = "ip"
    /\ IF storeUp /\ clock < blockedUntil
       THEN /\ rlResponse' = [NoAllow EXCEPT !.status = 429,
                                             !.retryAfter = BlockSeconds,
                                             !.cause = "blocked",
                                             !.lookup = "blocked"]
            /\ UNCHANGED rpc
       ELSE /\ rpc' = [rpc EXCEPT ![c] = "allow"]
            /\ rlResponse' =
                  [NoAllow EXCEPT !.lookup = IF storeUp THEN "absent"
                                             ELSE "error"]
    /\ UNCHANGED <<policy, limitConfig, bucket, blockedUntil, readNow, incs,
                   ticks, clock, crashed, cbVars, pxVars, laterVars>>

\* APIRateLimit up to the call of Allow
APIRateLimitEnter(c) ==
    /\ Enters(c)
    /\ policy = "api"
    /\ rpc' = [rpc EXCEPT ![c] = "allow"]
    /\ rlResponse' = NoAllow
    /\ UNCHANGED <<policy, limitConfig, bucket, blockedUntil, readNow,
                   incs, ticks, clock, crashed, cbVars, pxVars, laterVars>>

\* UserRateLimit up to the call of Allow: a request without a user goes on
UserRateLimitEnter(c, hasUser) ==
    /\ Enters(c)
    /\ policy = "user"
    /\ IF hasUser
       THEN /\ rpc' = [rpc EXCEPT ![c] = "allow"]
            /\ rlResponse' = NoAllow
       ELSE /\ rlResponse' = [NoAllow EXCEPT !.next = TRUE,
                                             !.cause = "no user"]
            /\ UNCHANGED rpc
    /\ UNCHANGED <<policy, limitConfig, bucket, blockedUntil, readNow, incs, ticks, clock, crashed, cbVars, pxVars, laterVars>>

\* a caller other than the middleware calls Allow
AllowCall(c) ==
    /\ Enters(c)
    /\ policy = "allow"
    /\ rpc' = [rpc EXCEPT ![c] = "allow"]
    /\ rlResponse' = NoAllow
    /\ UNCHANGED <<policy, limitConfig, bucket, blockedUntil, readNow,
                   incs, ticks, clock, crashed, cbVars, pxVars, laterVars>>

\* Allow up to the run of the script: the validation of the configuration
\* and the read of the clock; a positive Period below one second divides by
\* zero, a panic the Recovery middleware answers with 500
AllowReadClock(c) ==
    /\ ~crashed
    /\ rpc[c] = "allow"
    /\ IF validationError(limitConfig) # "nil"
       THEN /\ rlResponse' = answer(policy,
                                    allowInvalid(validationError(limitConfig)),
                                    "none")
            /\ rpc' = [rpc EXCEPT ![c] = "idle"]
            /\ UNCHANGED readNow
       ELSE IF periodSeconds(limitConfig) = 0
       THEN /\ rlResponse' = [NoAllow EXCEPT !.status = 500,
                                             !.cause = "panic"]
            /\ rpc' = [rpc EXCEPT ![c] = "idle"]
            /\ UNCHANGED readNow
       ELSE /\ readNow' = [readNow EXCEPT ![c] = clock]
            /\ rpc' = [rpc EXCEPT ![c] = "script"]
            /\ rlResponse' = NoAllow
    /\ UNCHANGED <<policy, limitConfig, bucket, blockedUntil, incs, calls,
                   ticks, clock, crashed, cbVars, pxVars, laterVars>>

\* the rest of Allow and of the policy: the script runs in the store (or
\* fails, or its reply is malformed), Allow returns, and the policy answers;
\* IPRateLimit sets the block key on a severe excess
AllowRunScript(c, outcome, setUp) ==
    /\ ~crashed
    /\ rpc[c] = "script"
    /\ LET t == readNow[c]
           e == expireAtOf(limitConfig, t)
           r == script(bucket, limitConfig.Limit, e, t, clock)
           a == IF outcome = "ok" THEN allowResult(limitConfig, r)
                ELSE scriptError(limitConfig, e - t, outcome)
           w == clock \div periodSeconds(limitConfig)
           resp == answer(policy, a, outcome)
       IN  /\ bucket' = IF outcome = "ok" THEN r.bucket ELSE bucket
           /\ incs' = IF outcome # "ok" THEN incs
                      ELSE IF incs.window = w
                      THEN [incs EXCEPT !.n = @ + 1]
                      ELSE [window |-> w, n |-> 1]
           /\ rlResponse' = resp
           /\ blockedUntil' = IF resp.cause = "severe" /\ setUp
                              THEN clock + BlockSeconds ELSE blockedUntil
    /\ rpc' = [rpc EXCEPT ![c] = "idle"]
    /\ readNow' = [readNow EXCEPT ![c] = 0]
    /\ UNCHANGED <<policy, limitConfig, calls, ticks, clock,
                   crashed, cbVars, pxVars, laterVars>>

\* the steps by which time passes: a second, a window, and under the IP
\* policy the life of a block
TickSteps ==
    {1} \cup (IF policy = "ip" THEN {BlockSeconds} ELSE {})
        \cup (IF limitConfig.Period >= 1000
              THEN {periodSeconds(limitConfig)} ELSE {})

TickLimiter(d) ==
    /\ ~crashed
    /\ ticks < MaxTicks
    /\ ticks' = ticks + 1
    /\ clock' = clock + d
    /\ rlResponse' = NoAllow
    /\ UNCHANGED <<policy, limitConfig, bucket, blockedUntil, rpc, readNow,
                   incs, calls, crashed, cbVars, pxVars, laterVars>>

ScriptOutcomes == {"ok", "error", "malformed"}
\* whether the write of the block key reaches the store; only IPRateLimit
\* writes it
SetOutcomes == IF policy = "ip" THEN BOOLEAN ELSE {TRUE}

NextRateLimit ==
    \/ \E c \in Callers, storeUp \in BOOLEAN : IPRateLimitLookup(c, storeUp)
    \/ \E c \in Callers : APIRateLimitEnter(c)
    \/ \E c \in Callers, hasUser \in BOOLEAN : UserRateLimitEnter(c, hasUser)
    \/ \E c \in Callers : AllowCall(c)
    \/ \E c \in Callers : AllowReadClock(c)
    \/ \E c \in Callers, outcome \in ScriptOutcomes, setUp \in SetOutcomes :
          AllowRunScript(c, outcome, setUp)
    \/ \E d \in TickSteps : TickLimiter(d)

SpecRateLimit == InitRateLimit /\ [][NextRateLimit]_vars

(***************************************************************************)
(* model.MatchRoutePath, on strings as sequences of characters.            *)
(***************************************************************************)
\* strings.HasPrefix, strings.HasSuffix, strings.TrimSuffix
HasPrefix(s, prefix) ==
    Len(prefix) <= Len(s) /\ SubSeq(s, 1, Len(prefix)) = prefix
HasSuffix(s, suffix) ==
    /\ Len(suffix) <= Len(s)
    /\ SubSeq(s, Len(s) - Len(suffix) + 1, Len(s)) = suffix
TrimSuffix(s, suffix) ==
    IF HasSuffix(s, suffix) THEN SubSeq(s, 1, Len(s) - Len(suffix)) ELSE s

\* strings.Contains(s, ch) for a one-character ch
Contains(s, ch) == \E i \in 1..Len(s) : s[i] = ch

\* strings.Split(s, "/"): the pieces between the slashes, empty ones kept
RECURSIVE Split(_)
Split(s) ==
    IF ~Contains(s, "/") THEN <<s>>
    ELSE LET i == CHOOSE k \in 1..Len(s) :
                      s[k] = "/" /\ \A j \in 1..(k - 1) : s[j] # "/"
         IN  <<SubSeq(s, 1, i - 1)>> \o Split(SubSeq(s, i + 1, Len(s)))

\* model.MatchRoutePath
MatchRoutePath(registered, request) ==
    IF registered = request THEN TRUE
    ELSE IF HasSuffix(registered, <<"/", "*">>)
    THEN HasPrefix(request, TrimSuffix(registered, <<"/", "*">>))
    ELSE IF Contains(registered, ":")
    THEN LET regParts == Split(registered)
             reqParts == Split(request)
         IN  /\ Len(regParts) = Len(reqParts)
             /\ \A i \in 1..Len(regParts) :
                   \/ HasPrefix(regParts[i], <<":">>)
                   \/ regParts[i] = reqParts[i]
    ELSE FALSE

\* the arguments of one call
InitMatchInputs ==
    /\ InitShared /\ InitBreaker /\ InitProxy
    /\ InitLimiter({<<"user", UserConfig, NoBucket>>})
    /\ InitCatalogue /\ InitDirector /\ InitPipeline
    /\ InitHealth /\ InitCacheGet /\ InitRegistry
    /\ InitAdmin /\ InitRace /\ InitGauge
    /\ registeredPath \in PathStrings
    /\ requestPath \in PathStrings
    /\ matchDone = FALSE
    /\ matched = FALSE

\* the call
CallMatchRoutePath ==
    /\ ~matchDone
    /\ matched' = MatchRoutePath(registeredPath, requestPath)
    /\ matchDone' = TRUE
    /\ UNCHANGED <<registeredPath, requestPath, clock, crashed, cbVars,
                   pxVars, rlVars, notMatch>>

NextMatch == CallMatchRoutePath

SpecMatch == InitMatchInputs /\ [][NextMatch]_vars

(***************************************************************************)
(* The route catalogue: route.Service over the GORM RouteRepository and    *)
(* the Cache, and Handler.ServeAPI from the request path on.  Every call   *)
(* of the store and of the cache is one step; the catalogue is observed    *)
(* within one TTL of its cache entries.                                    *)
(***************************************************************************)

\* the routes the administrator sends to AddRoute and to UpdateRoute
NewRoutes ==
    [path : Patterns, serviceURL : {"http://u:9000"}, methods : {{"GET"}},
     requiredHeaders : {{}}, isActive : BOOLEAN, callCount : {0},
     totalResponse : {0}]
ChangedRoutes ==
    [path : Patterns, serviceURL : {"http://u:9000", "http://x:1"},
     methods : {{"GET"}}, requiredHeaders : {{}}, isActive : BOOLEAN,
     callCount : {0}, totalResponse : {0}]

\* the orders in which a SELECT without ORDER BY may return the rows
RowOrders ==
    {o \in [1..Cardinality(Patterns) -> Patterns] :
        \A i, j \in DOMAIN o : o[i] = o[j] => i = j}

\* db.Create(entity): a zero value of a column that has a default is not
\* written, the column takes its default (is_active: true)
gormCreate(route) ==
    [route EXCEPT !.isActive = IF @ = FALSE THEN TRUE ELSE @]

\* db.Where("path = ?").Updates(entity) with a struct: only the non-zero
\* fields are written; the JSON columns are never empty strings
gormUpdates(row, route) ==
    [path            |-> row.path,
     serviceURL      |-> IF route.serviceURL # "" THEN route.serviceURL
                         ELSE row.serviceURL,
     methods         |-> route.methods,
     requiredHeaders |-> route.requiredHeaders,
     isActive        |-> IF route.isActive THEN TRUE ELSE row.isActive,
     callCount       |-> IF route.callCount # 0 THEN route.callCount
                         ELSE row.callCount,
     totalResponse   |-> IF route.totalResponse # 0 THEN route.totalResponse
                         ELSE row.totalResponse]

\* RouteRepository.GetRoutes: the active rows, in the order of the SELECT
repoGetRoutes(table, order) ==
    SelectSeq([i \in DOMAIN order |-> table[order[i]]],
              LAMBDA r : r # NoRow /\ r.isActive)

\* RouteRepository.GetRouteByPath: the row whose path is the given one,
\* active or not
repoGetRouteByPath(table, path) ==
    IF path \in DOMAIN table THEN table[path] ELSE NoRow

\* cache.Delete(key) of a "route:<path>" entry
cacheDelete(entries, path, cacheUp) ==
    IF cacheUp THEN [entries EXCEPT ![path] = NoRow] ELSE entries

\* the model.Route of a row as ServeAPI reads it
asLookup(r) ==
    [path |-> r.path, serviceURL |-> r.serviceURL, methods |-> r.methods,
     requiredHeaders |-> r.requiredHeaders, isActive |-> r.isActive]

\* Service.GetRouteByPath: the route or the error, and the cache afterwards
GetRouteByPath(path, order, storeUp, cacheUp) ==
    IF cacheUp /\ cachedRoute[path] # NoRow
    THEN [route |-> cachedRoute[path], err |-> "nil", fromCache |-> TRUE,
          cachedRoute |-> cachedRoute, active |-> <<>>,
          repo |-> <<>>, stored |-> <<>>]
    ELSE IF ~storeUp
    THEN [route |-> NoRow, err |-> "store error", fromCache |-> FALSE,
          cachedRoute |-> cachedRoute, active |-> <<>>,
          repo |-> <<"GetRoutes">>, stored |-> <<>>]
    ELSE LET routes == repoGetRoutes(rows, order)
             hits   == SelectSeq(routes,
                         LAMBDA r : MatchRoutePath(chars(r.path), chars(path)))
         IN  IF hits = <<>>
             THEN [route |-> NoRow, err |-> "ErrRouteNotFound",
                   fromCache |-> FALSE, cachedRoute |-> cachedRoute,
                   active |-> routes, repo |-> <<"GetRoutes">>,
                   stored |-> <<>>]
             ELSE [route |-> Head(hits), err |-> "nil", fromCache |-> FALSE,
                   cachedRoute |->
                       IF cacheUp
                       THEN [cachedRoute EXCEPT ![path] = Head(hits)]
                       ELSE cachedRoute,
                   active |-> routes, repo |-> <<"GetRoutes">>,
                   stored |-> IF cacheUp THEN CacheSet("route:", path)
                              ELSE <<>>]

\* Service.AddRoute
AddRoute(route, storeUp, cacheUp) ==
    /\ catOps < MaxCatOps
    /\ catOps' = catOps + 1
    /\ LET ok == storeUp /\ rows[route.path] = NoRow IN
       /\ rows' = IF ok THEN [rows EXCEPT ![route.path] = gormCreate(route)]
                  ELSE rows
       /\ cachedRoutes' = IF ok /\ cacheUp THEN NoList ELSE cachedRoutes
       /\ requested' = IF ok THEN [requested EXCEPT ![route.path] = route]
                       ELSE requested
       /\ since' = IF ok THEN [since EXCEPT ![route.path] =
                                 [op |-> "AddRoute", before |-> NoRow]]
                   ELSE since
       /\ lastCall' = [NoCall EXCEPT !.op = "AddRoute", !.path = route.path,
                                     !.storeUp = storeUp,
                                     !.err = IF ok THEN "nil"
                                             ELSE "store error"]
    /\ UNCHANGED <<cachedRoute, pendingMetrics, notCatalogue, clock, crashed,
                   cbVars, pxVars, rlVars>>

\* Service.UpdateRoute
UpdateRoute(route, storeUp, cacheUp) ==
    /\ catOps < MaxCatOps
    /\ catOps' = catOps + 1
    /\ LET old == rows[route.path]
           err == IF ~storeUp THEN "store error"
                  ELSE IF old = NoRow THEN "ErrRouteNotFound" ELSE "nil"
           ok  == err = "nil"
       IN
       /\ rows' = IF ok THEN [rows EXCEPT ![route.path] =
                                gormUpdates(old, route)]
                  ELSE rows
       /\ cachedRoute' = IF ok THEN cacheDelete(cachedRoute, route.path,
                                                cacheUp)
                         ELSE cachedRoute
       /\ cachedRoutes' = IF ok /\ cacheUp THEN NoList ELSE cachedRoutes
       /\ requested' = IF ok THEN [requested EXCEPT ![route.path] = route]
                       ELSE requested
       /\ since' = IF ok /\ route.serviceURL # old.serviceURL
                   THEN [since EXCEPT ![route.path] =
                           [op |-> "UpdateRoute", before |-> old]]
                   ELSE since
       /\ lastCall' = [NoCall EXCEPT !.op = "UpdateRoute",
                                     !.path = route.path,
                                     !.storeUp = storeUp, !.err = err,
                                     !.before = old]
    /\ UNCHANGED <<pendingMetrics, notCatalogue, clock, crashed, cbVars, pxVars,
                   rlVars>>

\* Service.DeleteRoute
DeleteRoute(path, storeUp, cacheUp) ==
    /\ catOps < MaxCatOps
    /\ catOps' = catOps + 1
    /\ LET old == rows[path]
           err == IF ~storeUp THEN "store error"
                  ELSE IF old = NoRow THEN "ErrRouteNotFound" ELSE "nil"
           ok  == err = "nil"
       IN
       /\ rows' = IF ok THEN [rows EXCEPT ![path] = NoRow] ELSE rows
       /\ cachedRoute' = IF ok THEN cacheDelete(cachedRoute, path, cacheUp)
                         ELSE cachedRoute
       /\ cachedRoutes' = IF ok /\ cacheUp THEN NoList ELSE cachedRoutes
       /\ requested' = IF ok THEN [requested EXCEPT ![path] = NoRow]
                       ELSE requested
       /\ since' = IF ok THEN [since EXCEPT ![path] = NoMutation] ELSE since
       /\ lastCall' = [NoCall EXCEPT !.op = "DeleteRoute", !.path = path,
                                     !.storeUp = storeUp, !.err = err,
                                     !.before = old]
    /\ UNCHANGED <<pendingMetrics, notCatalogue, clock, crashed, cbVars, pxVars,
                   rlVars>>

\* Service.GetRoutes, variant that ignores an error of cache.Get and reads
\* the store
getRoutesErrorIgnoringCache(storeUp, cacheUp, hit) ==
    IF cacheUp /\ hit THEN "nil"
    ELSE IF ~storeUp THEN "store error" ELSE "nil"

\* Service.GetRoutes: the error it returns; hit says whether the cache holds
\* an entry "routes"
getRoutesError(storeUp, cacheUp, hit) ==
    IF ~cacheUp THEN "cache error"
    ELSE IF hit THEN "nil"
    ELSE IF ~storeUp THEN "store error" ELSE "nil"

\* Service.GetRoutes, variant that stores whatever the repository call
\* left, failed or not
getRoutesStoredAlways(err, hit) ==
    IF ~hit /\ err # "cache error" THEN CacheSet("routes", "") ELSE <<>>

\* Service.GetRoutes: the cache.Set it makes, after a miss and a
\* repository call that succeeded
getRoutesStored(err, hit) ==
    IF ~hit /\ err = "nil" THEN CacheSet("routes", "") ELSE <<>>

\* Service.GetRoutes: the cached list, or the active rows, then cached
GetRoutes(order, storeUp, cacheUp) ==
    /\ catOps < MaxCatOps
    /\ catOps' = catOps + 1
    /\ LET hit == cacheUp /\ cachedRoutes.found
           err == getRoutesError(storeUp, cacheUp, cachedRoutes.found)
           routes == IF hit THEN cachedRoutes.routes
                     ELSE IF err = "nil" THEN repoGetRoutes(rows, order)
                     ELSE <<>>
           stored == getRoutesStored(err, hit)
       IN
       /\ cachedRoutes' = IF stored # <<>>
                          THEN [found |-> TRUE, routes |-> routes]
                          ELSE cachedRoutes
       /\ lastCall' = [NoCall EXCEPT !.op = "GetRoutes", !.err = err,
                                     !.storeUp = storeUp,
                                     !.fromCache = hit,
                                     !.active = routes,
                                     !.repo = IF hit \/ err = "cache error"
                                              THEN <<>>
                                              ELSE <<"GetRoutes">>,
                                     !.stored = stored]
    /\ UNCHANGED <<rows, cachedRoute, pendingMetrics, requested, since,
                   notCatalogue, clock, crashed, cbVars, pxVars, rlVars>>

\* Service.ClearCache: "routes" is deleted, then the entry "route:<path>"
\* of every route the repository lists; an error of one of these deletes
\* is only logged
ClearCache(order, storeUp, cacheUp) ==
    /\ catOps < MaxCatOps
    /\ catOps' = catOps + 1
    /\ LET err == IF ~cacheUp THEN "cache error"
                  ELSE IF ~storeUp THEN "store error" ELSE "nil"
           routes == repoGetRoutes(rows, order)
           listed == {routes[i].path : i \in DOMAIN routes}
       IN
       /\ cachedRoutes' = IF cacheUp THEN NoList ELSE cachedRoutes
       /\ cachedRoute' = IF err = "nil"
                         THEN [p \in DOMAIN cachedRoute |->
                                 IF p \in listed THEN NoRow
                                 ELSE cachedRoute[p]]
                         ELSE cachedRoute
       /\ lastCall' = [NoCall EXCEPT !.op = "ClearCache", !.err = err,
                                     !.storeUp = storeUp,
                                     !.repo = IF cacheUp THEN <<"GetRoutes">>
                                              ELSE <<>>]
    /\ UNCHANGED <<rows, pendingMetrics, requested, since, notCatalogue,
                   clock, crashed, cbVars, pxVars, rlVars>>

\* Handler.ServeAPI from the request path on: the lookup, the checks and
\* the proxy, and the metrics update handed to a goroutine after a proxied
\* request
ServeRequest(path, order, storeUp, cacheUp, duration) ==
    /\ catOps < MaxCatOps
    /\ Len(pendingMetrics) < MaxPending
    /\ catOps' = catOps + 1
    /\ LET g      == GetRouteByPath(path, order, storeUp, cacheUp)
           lookup == IF g.err = "nil" THEN asLookup(g.route)
                     ELSE RouteNotFound
           proxied ==
               /\ g.err = "nil"
               /\ lookup.isActive
               /\ IsMethodAllowed(lookup, "GET")
               /\ HasRequiredHeaders(lookup, {})
               /\ LET p == ProxyRequest(circuitBreakers, lookup,
                                        "response", clock)
                  IN  ~p.fatal /\ p.wrote /\ p.result.err = "nil"
       IN
       /\ ServeAPI(lookup, "GET", {}, "response")
       /\ cachedRoute' = g.cachedRoute
       /\ pendingMetrics' =
             IF proxied
             THEN Append(pendingMetrics,
                         [path |-> path, callCount |-> 1,
                          totalResponse |-> duration,
                          route |-> g.route])
             ELSE pendingMetrics
       /\ since' = [since EXCEPT ![path] = NoMutation]
       /\ lastCall' = [NoCall EXCEPT !.op = "GetRouteByPath", !.path = path,
                                     !.err = g.err, !.route = g.route,
                                     !.fromCache = g.fromCache,
                                     !.storeUp = storeUp,
                                     !.sinceOp = since[path].op,
                                     !.before = since[path].before,
                                     !.active = g.active,
                                     !.duration = duration,
                                     !.repo = g.repo, !.stored = g.stored]
    /\ UNCHANGED <<rows, cachedRoutes, requested, notCatalogue>>

\* the goroutine of ServeAPI: Service.UpdateMetrics, that is
\* RouteRepository.UpdateMetrics, which writes the values it is given to
\* the row whose path is the path it is given (u.route, the route that
\* served the request, is kept for the record of the call only)
RunUpdateMetrics(i, storeUp) ==
    /\ i \in DOMAIN pendingMetrics
    /\ LET u   == pendingMetrics[i]
           old == IF u.path \in Patterns THEN rows[u.path] ELSE NoRow
           err == IF ~storeUp THEN "store error"
                  ELSE IF old = NoRow THEN "ErrRouteNotFound" ELSE "nil"
       IN
       /\ rows' = IF err = "nil"
                  THEN [rows EXCEPT ![u.path] =
                          [old EXCEPT !.callCount = u.callCount,
                                      !.totalResponse = u.totalResponse]]
                  ELSE rows
       /\ lastCall' = [NoCall EXCEPT !.op = "UpdateMetrics",
                                     !.path = u.path, !.err = err,
                                     !.storeUp = storeUp, !.before = old,
                                     !.route = u.route,
                                     !.duration = u.totalResponse]
    /\ pendingMetrics' =
          [j \in 1..(Len(pendingMetrics) - 1) |->
              IF j < i THEN pendingMetrics[j] ELSE pendingMetrics[j + 1]]
    /\ UNCHANGED <<cachedRoutes, cachedRoute, catOps, requested, since,
                   notCatalogue, clock, crashed, cbVars, pxVars, rlVars>>

NextCatalogue ==
    \/ \E route \in NewRoutes, storeUp, cacheUp \in BOOLEAN :
          AddRoute(route, storeUp, cacheUp)
    \/ \E route \in ChangedRoutes, storeUp, cacheUp \in BOOLEAN :
          UpdateRoute(route, storeUp, cacheUp)
    \/ \E path \in Patterns, storeUp, cacheUp \in BOOLEAN :
          DeleteRoute(path, storeUp, cacheUp)
    \/ \E order \in RowOrders, storeUp, cacheUp \in BOOLEAN :
          GetRoutes(order, storeUp, cacheUp)
    \/ \E order \in RowOrders, storeUp, cacheUp \in BOOLEAN :
          ClearCache(order, storeUp, cacheUp)
    \/ \E path \in RequestPaths, order \in RowOrders,
          storeUp, cacheUp \in BOOLEAN, duration \in Durations :
          ServeRequest(path, order, storeUp, cacheUp, duration)
    \/ \E i \in 1..MaxPending, storeUp \in BOOLEAN :
          RunUpdateMetrics(i, storeUp)

SpecCatalogue == Init /\ [][NextCatalogue]_vars

(***************************************************************************)
(* The Director of ReverseProxy.doProxy and httputil's ServeHTTP around    *)
(* it.  The value of X-Forwarded-For is kept as the list of the addresses  *)
(* that its text joins with ", ".                                          *)
(***************************************************************************)

\* url.Parse(serviceURL).Host
hostOf(serviceURL) ==
    CASE serviceURL = "http://u:9000" -> "u:9000"
      [] serviceURL = "http://x:1"    -> "x:1"
      [] OTHER                        -> ""

\* net.SplitHostPort(addr): the host without the port
SplitHostPort(addr) == Addr(addr.ip, "")

\* the Director on the clone of the request r that ServeHTTP hands to it
Director(r, route) ==
    [RemoteAddr     |-> r.RemoteAddr,
     Host           |-> hostOf(route.serviceURL),
     Path           |-> r.Path,
     RawQuery       |-> r.RawQuery,
     \* req.Header.Set(header, val) of a listed header the client sent, on
     \* the clone that already carries the client's headers
     Header         |-> [h \in DOMAIN r.Header |->
                           IF h \in route.headers /\ r.Header[h] # ""
                           THEN r.Header[h]
                           ELSE r.Header[h]],
     XForwardedFor  |-> <<r.RemoteAddr>>,
     XForwardedHost |-> r.Host]

\* httputil.ReverseProxy.ServeHTTP after the Director: the client IP is
\* appended to the X-Forwarded-For the outgoing request already carries
ServeHTTP(r, route) ==
    LET out == Director(r, route) IN
    [out EXCEPT !.XForwardedFor = Append(@, SplitHostPort(r.RemoteAddr))]

InitDirectorInputs ==
    /\ InitShared /\ InitBreaker /\ InitProxy
    /\ InitLimiter({<<"user", UserConfig, NoBucket>>})
    /\ InitMatch /\ InitCatalogue /\ InitPipeline
    /\ InitHealth /\ InitCacheGet /\ InitRegistry
    /\ InitAdmin /\ InitRace /\ InitGauge
    /\ inbound \in InboundRequests
    /\ target \in DirectorRoutes
    /\ outreq = NoRequest
    /\ forwarded = FALSE

\* proxy.ServeHTTP(w, r)
ProxyServeHTTP ==
    /\ ~forwarded
    /\ outreq' = ServeHTTP(inbound, target)
    /\ forwarded' = TRUE
    /\ UNCHANGED <<inbound, target, clock, crashed, cbVars, pxVars, rlVars,
                   notDirector>>

NextDirector == ProxyServeHTTP

SpecDirector == InitDirectorInputs /\ [][NextDirector]_vars

(***************************************************************************)
(* The handler chains App.RegisterRoutes builds on the engine of           *)
(* gin.Default(): a request runs the handlers of its chain in order, each  *)
(* one calling c.Next() or aborting.                                       *)
(***************************************************************************)

\* gin.Default() and the router.Use calls of RegisterRoutes
GlobalMiddleware ==
    <<"gin.Logger", "gin.Recovery", "Recovery", "Logger", "Tracing",
      "Metrics">>

\* the request paths of the pipeline specification
PipelinePaths == {"/api/x", "/ws/x", "/admin/apis", "/health"}

\* the chain of a path: the global middleware, the middleware of its group
\* and its handler
handlersOf(path) ==
    CASE path \in {"/api/x", "/ws/x"} -> GlobalMiddleware \o <<"ServeAPI">>
      [] path = "/admin/apis" ->
            GlobalMiddleware \o <<"Authenticate", "ListAPIs">>
      [] OTHER -> GlobalMiddleware \o <<"HealthCheck">>

\* what ServeAPI ends in
ServeAPIResults == {404, 503, 405, 400, 200}

\* the engine takes a request
HandleHTTPRequest(path) ==
    /\ index = 0
    /\ handled < MaxHandled
    /\ handlers' = handlersOf(path)
    /\ index' = 1
    /\ ran' = <<>>
    /\ written' = 0
    /\ ctxUser' = ""
    /\ UNCHANGED <<handled, clock, crashed, cbVars, pxVars, rlVars,
                   notPipeline>>

\* a middleware that does its work and calls c.Next()
RunMiddleware ==
    /\ index \in DOMAIN handlers
    /\ handlers[index] \in {GlobalMiddleware[i] : i \in DOMAIN GlobalMiddleware}
    /\ ran' = Append(ran, handlers[index])
    /\ index' = index + 1
    /\ UNCHANGED <<handlers, written, handled, ctxUser, clock, crashed, cbVars,
                   pxVars, rlVars, notPipeline>>

\* the Authorization header of a request: none, one without the "Bearer "
\* prefix, a token ValidateToken rejects, and valid tokens of a user whose
\* role is "user" and of one whose role is "admin"
Credentials == {"none", "malformed", "invalid", "user", "admin"}

\* AuthService.ValidateToken succeeds
tokenValid(credentials) == credentials \in {"user", "admin"}

\* AuthService.IsAdmin
IsAdmin(role) == role = "admin"

\* AuthMiddleware.Authenticate: with a valid token c.Set("user", user) and
\* c.Next(), else c.AbortWithStatusJSON(401), which moves the index past
\* the chain
RunAuthenticate(credentials) ==
    /\ index \in DOMAIN handlers
    /\ handlers[index] = "Authenticate"
    /\ ran' = Append(ran, "Authenticate")
    /\ index' = IF tokenValid(credentials) THEN index + 1
                ELSE Len(handlers) + 1
    /\ written' = IF tokenValid(credentials) THEN written ELSE 401
    /\ ctxUser' = IF tokenValid(credentials) THEN credentials ELSE ctxUser
    /\ UNCHANGED <<handlers, handled, clock, crashed, cbVars, pxVars,
                   rlVars, notPipeline>>

\* Handler.ServeAPI as the last handler of the chain: its checks of the
\* route, of the required headers, and the proxy
RunServeAPI(result) ==
    /\ index \in DOMAIN handlers
    /\ handlers[index] = "ServeAPI"
    /\ ran' = ran \o <<"ServeAPI">>
                  \o (IF result \in {400, 200} THEN <<"ValidateHeaders">>
                      ELSE <<>>)
                  \o (IF result = 200 THEN <<"Proxy">> ELSE <<>>)
    /\ written' = result
    /\ index' = index + 1
    /\ UNCHANGED <<handlers, handled, ctxUser, clock, crashed, cbVars,
                   pxVars, rlVars, notPipeline>>

\* the handler of a static route
RunHandler ==
    /\ index \in DOMAIN handlers
    /\ handlers[index] \in {"ListAPIs", "HealthCheck"}
    /\ ran' = Append(ran, handlers[index])
    /\ written' = 200
    /\ index' = index + 1
    /\ UNCHANGED <<handlers, handled, ctxUser, clock, crashed, cbVars,
                   pxVars, rlVars, notPipeline>>

\* the chain is through: the response goes out
FinishRequest ==
    /\ index = Len(handlers) + 1
    /\ index > 1
    /\ index' = 0
    /\ handlers' = <<>>
    /\ handled' = handled + 1
    /\ UNCHANGED <<ran, written, ctxUser, clock, crashed, cbVars, pxVars, rlVars,
                   notPipeline>>

NextPipeline ==
    \/ \E path \in PipelinePaths : HandleHTTPRequest(path)
    \/ RunMiddleware
    \/ \E credentials \in Credentials : RunAuthenticate(credentials)
    \/ \E result \in ServeAPIResults : RunServeAPI(result)
    \/ RunHandler
    \/ FinishRequest

SpecPipeline == Init /\ [][NextPipeline]_vars

(***************************************************************************)
(* HealthChecker.ReadinessCheck: one goroutine per dependency and one for  *)
(* the router, all writing the local status and the map checks with no     *)
(* lock; the handler answers after wg.Wait().                              *)
(***************************************************************************)

\* the error of the check d: db.Ping, cache.Ping, router.GetRoutes
checkFails(d, e) ==
    CASE d = "database" -> ~e.dbUp
      [] d = "cache"    -> ~e.cacheUp
      [] OTHER          -> getRoutesError(e.dbUp, e.cacheUp, e.hit) # "nil"

\* the handler starts the goroutines
ReadinessCheck(e) ==
    /\ ~crashed
    /\ probes < MaxProbes
    /\ \A d \in HealthChecks : hpc[d] = "idle"
    /\ env' = e
    /\ hpc' = [d \in HealthChecks |-> "check"]
    /\ checks' = [d \in HealthChecks |-> ""]
    /\ hstatus' = 200
    /\ readiness' = 0
    /\ probes' = probes + 1
    /\ UNCHANGED <<clock, crashed, cbVars, pxVars, rlVars, notHealth>>

\* a goroutine runs its check and, when a critical check failed, assigns
\* the shared status
RunCheck(d) ==
    /\ ~crashed
    /\ hpc[d] = "check"
    /\ hstatus' = IF checkFails(d, env) /\ Critical(d) THEN 503 ELSE hstatus
    /\ hpc' = [hpc EXCEPT ![d] = "write"]
    /\ UNCHANGED <<checks, readiness, env, probes, clock, crashed, cbVars,
                   pxVars, rlVars, notHealth>>

\* checks[d.Name] = ... begins: a map assignment that overlaps another one
\* is a data race, which the runtime may end with "fatal error: concurrent
\* map writes"
BeginMapWrite(d, fatal) ==
    /\ ~crashed
    /\ hpc[d] = "write"
    /\ fatal => \E o \in HealthChecks \ {d} : hpc[o] = "writing"
    /\ crashed' = fatal
    /\ hpc' = [hpc EXCEPT ![d] = "writing"]
    /\ UNCHANGED <<checks, hstatus, readiness, env, probes, clock, cbVars,
                   pxVars, rlVars, notHealth>>

\* the map assignment ends; wg.Done()
EndMapWrite(d) ==
    /\ ~crashed
    /\ hpc[d] = "writing"
    /\ checks' = [checks EXCEPT ![d] =
                    IF checkFails(d, env) THEN "DOWN" ELSE "UP"]
    /\ hpc' = [hpc EXCEPT ![d] = "done"]
    /\ UNCHANGED <<hstatus, readiness, env, probes, clock, crashed, cbVars,
                   pxVars, rlVars, notHealth>>

\* wg.Wait() returns; c.JSON(status, result)
AnswerReadiness ==
    /\ ~crashed
    /\ \A d \in HealthChecks : hpc[d] = "done"
    /\ readiness' = hstatus
    /\ hpc' = [d \in HealthChecks |-> "idle"]
    /\ UNCHANGED <<checks, hstatus, env, probes, clock, crashed, cbVars,
                   pxVars, rlVars, notHealth>>

NextHealth ==
    \/ \E e \in [dbUp : BOOLEAN, cacheUp : BOOLEAN, hit : BOOLEAN] :
          ReadinessCheck(e)
    \/ \E d \in HealthChecks : RunCheck(d)
    \/ \E d \in HealthChecks, fatal \in BOOLEAN : BeginMapWrite(d, fatal)
    \/ \E d \in HealthChecks : EndMapWrite(d)
    \/ AnswerReadiness

SpecHealth == Init /\ [][NextHealth]_vars

(***************************************************************************)
(* Cache.Get of the in-process cache (MemoryCache) and of the shared one   *)
(* (RedisCache): what is returned for a stored value and a destination.    *)
(***************************************************************************)

\* json.Marshal of a stored value: the shape of the JSON text
jsonMarshal(value) ==
    CASE value.type = "string"   -> [shape |-> "string", integral |-> FALSE]
      [] value.type = "bool"     -> [shape |-> "bool", integral |-> FALSE]
      [] value.type = "Route"    -> [shape |-> "object", integral |-> FALSE]
      [] value.type = "[]*Route" -> [shape |-> "array", integral |-> FALSE]
      [] OTHER -> [shape |-> "number", integral |-> value.integral]

\* json.Unmarshal(data, dest): whether the text decodes into the type
jsonUnmarshal(data, destType) ==
    CASE destType = "string"   -> data.shape = "string"
      [] destType = "int"      -> data.shape = "number" /\ data.integral
      [] destType = "float64"  -> data.shape = "number"
      [] destType = "bool"     -> data.shape = "bool"
      [] destType = "Route"    -> data.shape = "object"
      [] OTHER                 -> data.shape = "array"

\* MemoryCache.Get
memoryGet(entry, destType) ==
    IF entry = NoEntry
    THEN [NoGet EXCEPT !.backend = "memory"]
    ELSE IF destType \in {"string", "int", "bool", "float64"}
            /\ entry.type = destType
    THEN [backend |-> "memory", found |-> TRUE, err |-> "nil",
          assigned |-> TRUE]
    ELSE IF jsonUnmarshal(jsonMarshal(entry), destType)
    THEN [backend |-> "memory", found |-> TRUE, err |-> "nil",
          assigned |-> TRUE]
    ELSE [backend |-> "memory", found |-> TRUE, err |-> "json error",
          assigned |-> FALSE]

\* RedisCache.Get; Set stored json.Marshal(value)
redisGet(entry, destType, up) ==
    IF ~up
    THEN [backend |-> "redis", found |-> FALSE, err |-> "redis error",
          assigned |-> FALSE]
    ELSE IF entry = NoEntry
    THEN [NoGet EXCEPT !.backend = "redis"]
    ELSE IF jsonUnmarshal(jsonMarshal(entry), destType)
    THEN [backend |-> "redis", found |-> TRUE, err |-> "nil",
          assigned |-> TRUE]
    ELSE [backend |-> "redis", found |-> FALSE, err |-> "json error",
          assigned |-> FALSE]

\* a stored value, a destination and a server state
InitCacheGetInputs ==
    /\ InitShared /\ InitBreaker /\ InitProxy
    /\ InitLimiter({<<"user", UserConfig, NoBucket>>})
    /\ InitMatch /\ InitCatalogue /\ InitDirector /\ InitPipeline
    /\ InitHealth /\ InitRegistry /\ InitAdmin /\ InitRace /\ InitGauge
    /\ cgEntry \in StoredValues \cup {NoEntry}
    /\ cgDest \in GoTypes
    /\ redisUp \in BOOLEAN
    /\ cgResult = NoGet

MemoryCacheGet ==
    /\ cgResult = NoGet
    /\ cgResult' = memoryGet(cgEntry, cgDest)
    /\ UNCHANGED <<cgEntry, cgDest, redisUp, clock, crashed, cbVars, pxVars,
                   rlVars, notCacheGet>>

RedisCacheGet ==
    /\ cgResult = NoGet
    /\ cgResult' = redisGet(cgEntry, cgDest, redisUp)
    /\ UNCHANGED <<cgEntry, cgDest, redisUp, clock, crashed, cbVars, pxVars,
                   rlVars, notCacheGet>>

NextCacheGet == MemoryCacheGet \/ RedisCacheGet

SpecCacheGet == InitCacheGetInputs /\ [][NextCacheGet]_vars

(***************************************************************************)
(* ReverseProxy.getCircuitBreaker, statement by statement, for callers     *)
(* that run concurrently: a lookup under the read lock, then a second      *)
(* lookup and the creation under the write lock.                           *)
(***************************************************************************)

\* the part under the write lock without the second lookup
lockedCreate(registry, count, serviceURL) ==
    [registry |-> [registry EXCEPT ![serviceURL] = count[serviceURL] + 1],
     made     |-> [count EXCEPT ![serviceURL] = @ + 1],
     cb       |-> count[serviceURL] + 1]

\* the part under the write lock: the second lookup, and the creation
\* when the serviceURL still has no breaker
lockedGetOrCreate(registry, count, serviceURL) ==
    IF registry[serviceURL] # 0
    THEN [registry |-> registry, made |-> count,
          cb |-> registry[serviceURL]]
    ELSE [registry |-> [registry EXCEPT ![serviceURL] =
                           count[serviceURL] + 1],
          made     |-> [count EXCEPT ![serviceURL] = @ + 1],
          cb       |-> count[serviceURL] + 1]

\* a request goroutine enters getCircuitBreaker(serviceURL)
CallGetCircuitBreaker(g, serviceURL) ==
    /\ regPc[g] = "idle"
    /\ regCalls < MaxRegistryCalls
    /\ regCalls' = regCalls + 1
    /\ regURL' = [regURL EXCEPT ![g] = serviceURL]
    /\ regSlow' = [regSlow EXCEPT ![g] = FALSE]
    /\ regGot' = [regGot EXCEPT ![g] = 0]
    /\ regPc' = [regPc EXCEPT ![g] = "RLock"]
    /\ UNCHANGED <<cbRegistry, cbLock, made, clock, crashed, cbVars, pxVars,
                   rlVars, notRegistry>>

\* p.cbLock.RLock()
RegistryRLock(g) ==
    /\ regPc[g] = "RLock"
    /\ cbLock.writer = 0
    /\ cbLock' = [cbLock EXCEPT !.readers = @ \cup {g}]
    /\ regPc' = [regPc EXCEPT ![g] = "lookup"]
    /\ UNCHANGED <<regURL, regSlow, regGot, cbRegistry, made, regCalls, clock,
                   crashed, cbVars, pxVars, rlVars, notRegistry>>

\* cb, exists := p.circuitBreakers[serviceURL]; p.cbLock.RUnlock();
\* if exists { return cb }
RegistryLookup(g) ==
    /\ regPc[g] = "lookup"
    /\ cbLock' = [cbLock EXCEPT !.readers = @ \ {g}]
    /\ IF cbRegistry[regURL[g]] # 0
       THEN /\ regGot' = [regGot EXCEPT ![g] = cbRegistry[regURL[g]]]
            /\ regPc' = [regPc EXCEPT ![g] = "idle"]
            /\ UNCHANGED regSlow
       ELSE /\ regSlow' = [regSlow EXCEPT ![g] = TRUE]
            /\ regPc' = [regPc EXCEPT ![g] = "Lock"]
            /\ UNCHANGED regGot
    /\ UNCHANGED <<regURL, cbRegistry, made, regCalls, clock, crashed, cbVars,
                   pxVars, rlVars, notRegistry>>

\* p.cbLock.Lock()
RegistryLock(g) ==
    /\ regPc[g] = "Lock"
    /\ cbLock.writer = 0
    /\ cbLock.readers = {}
    /\ cbLock' = [cbLock EXCEPT !.writer = g]
    /\ regPc' = [regPc EXCEPT ![g] = "create"]
    /\ UNCHANGED <<regURL, regSlow, regGot, cbRegistry, made, regCalls, clock,
                   crashed, cbVars, pxVars, rlVars, notRegistry>>

\* the second lookup, the creation, the deferred Unlock and the return
RegistryCreate(g) ==
    /\ regPc[g] = "create"
    /\ LET r == lockedGetOrCreate(cbRegistry, made, regURL[g]) IN
       /\ cbRegistry' = r.registry
       /\ made' = r.made
       /\ regGot' = [regGot EXCEPT ![g] = r.cb]
    /\ cbLock' = [cbLock EXCEPT !.writer = 0]
    /\ regPc' = [regPc EXCEPT ![g] = "idle"]
    /\ UNCHANGED <<regURL, regSlow, regCalls, clock, crashed, cbVars, pxVars,
                   rlVars, notRegistry>>

NextRegistry ==
    \/ \E g \in Requesters, u \in RegistryURLs : CallGetCircuitBreaker(g, u)
    \/ \E g \in Requesters : RegistryRLock(g)
    \/ \E g \in Requesters : RegistryLookup(g)
    \/ \E g \in Requesters : RegistryLock(g)
    \/ \E g \in Requesters : RegistryCreate(g)

SpecRegistry == Init /\ [][NextRegistry]_vars

(***************************************************************************)
(* The writers of the routes table: RouteHandler.RegisterAPI and UpdateAPI *)
(* of the admin API, and JSONRouteLoader.LoadRoutesFromJSON at start-up.   *)
(***************************************************************************)

\* Route.Validate: nil, or the first error
Validate(route) ==
    IF route.path = "" THEN "path"
    ELSE IF route.serviceURL = "" THEN "serviceURL"
    ELSE IF route.methods = {} THEN "methods"
    ELSE IF ~urlParses(route.serviceURL) THEN "serviceURL invalid"
    ELSE "nil"

\* RouteRepository.AddRoute on the table: db.Create, which the unique
\* index on path refuses for a path already there
repoAddRoute(table, route) ==
    IF table[route.path] # NoDescriptor THEN table
    ELSE [table EXCEPT ![route.path] = route]

\* RouteRepository.UpdateRoute on the table: Updates(entity), which skips
\* the zero fields; the methods column is a JSON text, never a zero value
repoUpdateRoute(table, route) ==
    IF table[route.path] = NoDescriptor THEN table
    ELSE [table EXCEPT ![route.path] =
            [path       |-> route.path,
             serviceURL |-> IF route.serviceURL # "" THEN route.serviceURL
                            ELSE @.serviceURL,
             methods    |-> route.methods]]

\* LoadRoutesFromJSON: every route of the file is updated if its path is in
\* the table and inserted if not
RECURSIVE loadRoutes(_, _)
loadRoutes(table, routes) ==
    IF routes = <<>> THEN table
    ELSE LET route == Head(routes)
             next  == IF table[route.path] # NoDescriptor
                      THEN repoUpdateRoute(table, route)
                      ELSE repoAddRoute(table, route)
         IN  loadRoutes(next, Tail(routes))

\* App start-up: the routes file is loaded before the server listens
LoadRoutesFromJSON(routes) ==
    /\ ~loaded
    /\ adminOps = 0
    /\ loaded' = TRUE
    /\ descriptors' = loadRoutes(descriptors, routes)
    /\ UNCHANGED <<adminStatus, adminOps, clock, crashed, cbVars, pxVars,
                   rlVars, notAdmin>>

\* POST /admin/register
RegisterAPI(route) ==
    /\ adminOps < MaxAdminOps
    /\ adminOps' = adminOps + 1
    /\ IF Validate(route) # "nil"
       THEN /\ adminStatus' = 400
            /\ UNCHANGED descriptors
       ELSE IF descriptors[route.path] # NoDescriptor
       THEN /\ adminStatus' = 500
            /\ UNCHANGED descriptors
       ELSE /\ adminStatus' = 201
            /\ descriptors' = repoAddRoute(descriptors, route)
    /\ UNCHANGED <<loaded, clock, crashed, cbVars, pxVars, rlVars, notAdmin>>

\* PUT /admin/update
UpdateAPI(route) ==
    /\ adminOps < MaxAdminOps
    /\ adminOps' = adminOps + 1
    /\ IF Validate(route) # "nil"
       THEN /\ adminStatus' = 400
            /\ UNCHANGED descriptors
       ELSE IF descriptors[route.path] = NoDescriptor
       THEN /\ adminStatus' = 500
            /\ UNCHANGED descriptors
       ELSE /\ adminStatus' = 200
            /\ descriptors' = repoUpdateRoute(descriptors, route)
    /\ UNCHANGED <<loaded, clock, crashed, cbVars, pxVars, rlVars, notAdmin>>

NextAdmin ==
    \/ \E routes \in RouteFiles : LoadRoutesFromJSON(routes)
    \/ \E route \in Descriptors : RegisterAPI(route)
    \/ \E route \in Descriptors : UpdateAPI(route)

SpecAdmin == Init /\ [][NextAdmin]_vars

(***************************************************************************)
(* Service.GetRouteByPath run by request goroutines while an admin request *)
(* runs Service.UpdateRoute or Service.DeleteRoute on the same path: every *)
(* call of the cache and of the repository is a step of its own, and       *)
(* nothing orders the steps of one goroutine against those of another.     *)
(***************************************************************************)

\* GetRouteByPath: cache.Get("route:<path>"); a hit is returned
ReaderCacheGet(r) ==
    /\ rdPc[r] = "idle"
    /\ reads < MaxReads
    /\ reads' = reads + 1
    /\ rdPc' = [rdPc EXCEPT ![r] = IF cacheEntry # NoRow THEN "idle"
                                   ELSE "repo"]
    /\ rdLoaded' = [rdLoaded EXCEPT ![r] = NoRow]
    /\ UNCHANGED <<storeRow, cacheEntry, wrPc, mutations, clock, crashed,
                   cbVars, pxVars, rlVars, notRace>>

\* GetRouteByPath: repo.GetRoutes and the first route that matches; with
\* none, ErrRouteNotFound is returned
ReaderRepoGetRoutes(r) ==
    /\ rdPc[r] = "repo"
    /\ LET found == storeRow # NoRow /\ storeRow.isActive
                       /\ MatchRoutePath(chars(storeRow.path),
                                         chars(RacePath))
       IN /\ rdLoaded' = [rdLoaded EXCEPT ![r] =
                            IF found THEN storeRow ELSE NoRow]
          /\ rdPc' = [rdPc EXCEPT ![r] = IF found THEN "set" ELSE "idle"]
    /\ UNCHANGED <<storeRow, cacheEntry, wrPc, reads, mutations, clock,
                   crashed, cbVars, pxVars, rlVars, notRace>>

\* GetRouteByPath: cache.Set("route:<path>", r, 5 minutes) and the return
ReaderCacheSet(r) ==
    /\ rdPc[r] = "set"
    /\ cacheEntry' = rdLoaded[r]
    /\ rdPc' = [rdPc EXCEPT ![r] = "idle"]
    /\ UNCHANGED <<storeRow, rdLoaded, wrPc, reads, mutations, clock,
                   crashed, cbVars, pxVars, rlVars, notRace>>

\* UpdateRoute: repo.UpdateRoute commits; with no row it returns
\* ErrRouteNotFound and the caches are left alone
WriterUpdateRoute(route) ==
    /\ wrPc = "idle"
    /\ mutations < MaxMutations
    /\ mutations' = mutations + 1
    /\ IF storeRow = NoRow
       THEN UNCHANGED <<storeRow, wrPc>>
       ELSE /\ storeRow' = gormUpdates(storeRow, route)
            /\ wrPc' = "invalidate"
    /\ UNCHANGED <<cacheEntry, rdPc, rdLoaded, reads, clock, crashed, cbVars,
                   pxVars, rlVars, notRace>>

\* DeleteRoute: repo.DeleteRoute commits; with no row it returns
\* ErrRouteNotFound and the caches are left alone
WriterDeleteRoute ==
    /\ wrPc = "idle"
    /\ mutations < MaxMutations
    /\ mutations' = mutations + 1
    /\ IF storeRow = NoRow
       THEN UNCHANGED <<storeRow, wrPc>>
       ELSE /\ storeRow' = NoRow
            /\ wrPc' = "invalidate"
    /\ UNCHANGED <<cacheEntry, rdPc, rdLoaded, reads, clock, crashed, cbVars,
                   pxVars, rlVars, notRace>>

\* UpdateRoute / DeleteRoute: cache.Delete("route:<path>"), then
\* cache.Delete("routes"), a key GetRouteByPath does not use, and the return
WriterInvalidate ==
    /\ wrPc = "invalidate"
    /\ cacheEntry' = NoRow
    /\ wrPc' = "idle"
    /\ UNCHANGED <<storeRow, rdPc, rdLoaded, reads, mutations, clock, crashed,
                   cbVars, pxVars, rlVars, notRace>>

NextRace ==
    \/ \E r \in Readers : ReaderCacheGet(r)
    \/ \E r \in Readers : ReaderRepoGetRoutes(r)
    \/ \E r \in Readers : ReaderCacheSet(r)
    \/ \E route \in {c \in ChangedRoutes : c.path = RacePath} :
          WriterUpdateRoute(route)
    \/ WriterDeleteRoute
    \/ WriterInvalidate

SpecRace == Init /\ [][NextRace]_vars

(***************************************************************************)
(* The in-flight gauge: MetricsMiddleware around Handler.ServeAPI and      *)
(* ReverseProxy.doProxy                                                    *)
(***************************************************************************)

\* APIMetrics.RequestStarted: activeRequests.WithLabelValues(...).Inc()
RequestStarted(gauge, path, method) ==
    [gauge EXCEPT ![<<path, method>>] = @ + 1]

\* APIMetrics.RequestCompleted: activeRequests.WithLabelValues(...).Dec()
RequestCompleted(gauge, path, method) ==
    [gauge EXCEPT ![<<path, method>>] = @ - 1]

\* MetricsMiddleware.Middleware up to c.Next()
MiddlewareBefore(path, method) ==
    /\ ~crashed
    /\ chainPc = "idle"
    /\ served < MaxServed
    /\ inFlight' = [path |-> path, method |-> method]
    /\ activeRequests' = RequestStarted(activeRequests, FullPath, method)
    /\ chainPc' = "next"
    /\ UNCHANGED <<clock, crashed, cbVars, pxVars, rlVars, notGauge>>

\* the calls of RequestStarted and RequestCompleted Handler.ServeAPI and
\* doProxy make for a request that passed the route's checks
proxiedGauge(gauge, path, method, lookup, upstream) ==
    LET p  == ProxyRequest(circuitBreakers, lookup, upstream, clock)
        g1 == RequestStarted(gauge, path, method)
        g2 == IF ~p.fatal /\ p.wrote /\ urlParses(lookup.serviceURL)
              THEN RequestStarted(g1, lookup.path, method)
              ELSE g1
    IN  IF ~p.fatal /\ p.result.err = "nil"
        THEN RequestCompleted(g2, path, method)
        ELSE g2

\* c.Next() of the middleware: Handler.ServeAPI with the metrics it records
GaugeServeAPI(lookup, headers, upstream) ==
    /\ chainPc = "next"
    /\ \/ lookup = RouteNotFound
       \/ lookup.path = inFlight.path
       \/ lookup.path = "/api/*"
    /\ ServeAPI(lookup, inFlight.method, headers, upstream)
    /\ activeRequests' =
          IF /\ lookup # RouteNotFound
             /\ lookup.isActive
             /\ IsMethodAllowed(lookup, inFlight.method)
             /\ HasRequiredHeaders(lookup, headers)
          THEN proxiedGauge(activeRequests, inFlight.path, inFlight.method,
                            lookup, upstream)
          ELSE activeRequests
    /\ chainPc' = "after"
    /\ UNCHANGED <<inFlight, notGauge>>

\* MetricsMiddleware.Middleware after c.Next()
MiddlewareAfter ==
    /\ ~crashed
    /\ chainPc = "after"
    /\ activeRequests' =
          RequestCompleted(activeRequests, FullPath, inFlight.method)
    /\ inFlight' = NoInFlight
    /\ chainPc' = "idle"
    /\ UNCHANGED <<clock, crashed, cbVars, pxVars, rlVars, notGauge>>

\* time passes between two requests
TickGauge ==
    /\ chainPc = "idle"
    /\ TickProxy

NextGauge ==
    \/ \E path \in GaugeRequestPaths, method \in HTTPMethods :
          MiddlewareBefore(path, method)
    \/ \E lookup \in Routes \cup {RouteNotFound}, headers \in HeaderSets,
          upstream \in UpstreamOutcomes :
          GaugeServeAPI(lookup, headers, upstream)
    \/ MiddlewareAfter
    \/ TickGauge

SpecGauge == Init /\ [][NextGauge]_vars

(***************************************************************************)
(* Properties of the circuit breaker                                       *)
(***************************************************************************)

\* goroutine g leaves the admission check of allowRequest in this step
Decides(g) == pc[g] \in {"rlocked", "wantLock"} /\ pc'[g] # pc[g]

\* goroutine g records the result of its call in this step
Records(g) == pc[g] = "fn" /\ pc'[g] = "idle"

C2_TransportFailureRecorded ==
    [][ (served' = served + 1 /\ response'.outcome \in TransportErrors) =>
          LET u == response'.serviceURL
              before == IF u \in DOMAIN circuitBreakers
                        THEN circuitBreakers[u].failCount ELSE 0
          IN  \/ circuitBreakers'[u].state = StateOpen
              \/ circuitBreakers'[u].failCount = before + 1
      ]_vars

\* C3 (the claim): while the breaker is half-open, at most cb.maxRequests calls
\* admitted in half-open are in flight at the same time.
C3_HalfOpenBounded ==
    cb.state = StateHalfOpen =>
        Cardinality({g \in Goroutines :
                        pc[g] = "fn" /\ admittedIn[g] = StateHalfOpen})
            <= cb.maxRequests

\* C4 (the claim): racing observers of an elapsed open breaker cause one
\* open -> half-open transition, and from that transition until a result is
\* recorded at most cb.maxRequests calls are admitted.
C4_OneTransitionBoundedTrials ==
    /\ transitions <= 1
    /\ cb.state = StateHalfOpen => trials <= cb.maxRequests

\* C5: in half-open a recorded success closes the breaker with failCount = 0
\* and a recorded failure opens it with nextAttemptTime = now + timeout; the
\* breaker leaves half-open in no other way than to closed with failCount = 0
\* or to open with nextAttemptTime = now + timeout.
C5_HalfOpenResultDecides ==
    [][ cb.state = StateHalfOpen =>
          /\ \A g \in Goroutines : Records(g) =>
                IF lastReturn' = "ok"
                THEN cb'.state = StateClose /\ cb'.failCount = 0
                ELSE /\ cb'.state = StateOpen
                     /\ cb'.nextAttemptTime = clock + cb.timeout
          /\ cb'.state = StateClose => cb'.failCount = 0
          /\ cb'.state = StateOpen => cb'.nextAttemptTime = clock + cb.timeout
      ]_vars

\* C5 witness: a success recorded in half-open has closed the breaker after
\* it had counted cb.maxFails failures.
C5_Witness ==
    /\ lastChange = <<StateHalfOpen, StateClose, "recordResult">>
    /\ cb.state = StateClose
    /\ lastReturn = "ok"

\* C6 (the claim): a proxied request that the breaker of route.serviceURL
\* rejected with ErrCircuitOpen is answered 503 with a circuit-open body, and
\* the upstream is not contacted.
C6_RejectedGets503 ==
    response.err = "ErrCircuitOpen" =>
        /\ response.status = 503
        /\ response.body = "circuit open"
        /\ ~response.contacted

\* C7 (the claim): the Execute that finds the timeout elapsed moves the
\* breaker open -> half-open and its call runs; a success recorded in
\* half-open closes the breaker.
C7_TrialRunsAfterTimeout ==
    [][ /\ \A g \in Goroutines :
              (pc[g] = "deferred" /\ allowed[g] /\ pc'[g] # pc[g])
              => pc'[g] = "fn"
        /\ \A g \in Goroutines :
              (cb.state = StateHalfOpen /\ Records(g) /\ lastReturn' = "ok")
              => cb'.state = StateClose
      ]_vars

(***************************************************************************)
(* Properties of the rate limiter                                          *)
(***************************************************************************)
\* caller c's Allow returns from the script and its policy answers
ScriptEnds(c) == rpc[c] = "script" /\ rpc'[c] = "idle"

\* C8 (the claim): for limit L and a positive burst b, the k-th increment of
\* the key inside one window [floor(now/window)*window, +window) is admitted
\* exactly if k <= floor(L*b), whatever the interleaving of the callers, and
\* the first increment of a window is answered with count 1
\* (remaining = L - 1).
C8_ExactlyBurstLimitAdmitted ==
    [][ \A c \in Callers :
          (ScriptEnds(c) /\ rlResponse'.store = "ok"
             /\ limitConfig.BurstFactor > 0) =>
            /\ rlResponse'.allowed <=>
                  (incs'.n <= (limitConfig.Limit * limitConfig.BurstFactor)
                                 \div 10)
            /\ incs'.n = 1 =>
                  rlResponse'.remaining = limitConfig.Limit - 1
      ]_vars

\* C9: Allow never rejects because of an error.  A rejection comes with no
\* error from a script that ran; a failed script or a malformed reply gives
\* admitted = true with an error; Limit <= 0 or Period <= 0 gives
\* admitted = true with the validation error; and a policy (IP, API, user)
\* hands the request on whenever Allow returned an error.
C9_ErrorsFailOpen ==
    /\ ~rlResponse.allowed =>
          rlResponse.err = "nil" /\ rlResponse.store = "ok"
    /\ rlResponse.store \in {"error", "malformed"} =>
          rlResponse.allowed /\ rlResponse.err # "nil"
    /\ (rlResponse.cause \in {"error", "returned", "admitted", "limit",
                               "severe"}
          /\ validationError(limitConfig) # "nil") =>
          rlResponse.allowed /\ rlResponse.err = validationError(limitConfig)
    /\ (rlResponse.err # "nil" /\ policy # "allow") =>
          rlResponse.next /\ rlResponse.status # 429

\* C9 witness: the script of an IP-policy request failed and the request
\* went on to the next handler.
C9_Witness ==
    /\ policy = "ip"
    /\ rlResponse.store = "error"
    /\ rlResponse.err = "error"
    /\ rlResponse.allowed
    /\ rlResponse.next

\* C10 (the claim): while the block of an IP lasts, every request of the IP
\* policy is rejected with 429 and Retry-After: 600 without reaching Allow
\* and without incrementing the window counter.
C10_BlockedAlwaysRejected ==
    [][ (policy = "ip" /\ calls' = calls + 1 /\ clock < blockedUntil) =>
          /\ rpc' = rpc
          /\ rlResponse'.status = 429
          /\ rlResponse'.retryAfter = 600
          /\ bucket' = bucket
      ]_vars

\* C10 (amended): the block key is written only by a request to which Allow
\* returned admitted = false with remaining < -100; while the block lasts,
\* every request whose read of the block key succeeds is rejected with 429
\* and Retry-After: 600 without reaching Allow or incrementing the counter;
\* a rejection with remaining >= -100 answers 429 with Retry-After =
\* expireAt - now and the X-RateLimit-* headers, and leaves the block key
\* alone.
C10_BlockRule ==
    [][ /\ blockedUntil' # blockedUntil =>
              /\ ~rlResponse'.allowed
              /\ rlResponse'.remaining < -100
              /\ rlResponse'.err = "nil"
        /\ (policy = "ip" /\ calls' = calls + 1 /\ clock < blockedUntil
              /\ rlResponse'.lookup # "error") =>
              /\ rpc' = rpc
              /\ rlResponse'.status = 429
              /\ rlResponse'.retryAfter = 600
              /\ bucket' = bucket
        /\ \A c \in Callers :
              (policy = "ip" /\ ScriptEnds(c) /\ rlResponse'.err = "nil"
                 /\ ~rlResponse'.allowed /\ rlResponse'.remaining >= -100) =>
              /\ rlResponse'.status = 429
              /\ rlResponse'.retryAfter =
                    expireAtOf(limitConfig, readNow[c]) - readNow[c]
              /\ rlResponse'.retryAfter > 0
              /\ rlResponse'.headers
              /\ blockedUntil' = blockedUntil
      ]_vars

\* C10 witness: a request found the block key set by a severe excess and was
\* rejected with 429 and Retry-After: 600.
C10_Witness ==
    /\ policy = "ip"
    /\ clock < blockedUntil
    /\ rlResponse.lookup = "blocked"
    /\ rlResponse.cause = "blocked"
    /\ rlResponse.status = 429
    /\ rlResponse.retryAfter = 600

(***************************************************************************)
(* Properties of Handler.ServeAPI                                          *)
(***************************************************************************)

\* the step handed the request to the proxy: a breaker was looked up
ReachesProxy ==
    \/ response'.serviceURL # ""
    \/ circuitBreakers' # circuitBreakers
    \/ crashed'

\* C15: the proxy (the breaker of the route and the upstream) is reached
\* only by a request whose route was found, is active, allows the method
\* and has every required header; a method the route does not list is
\* answered 405 and a missing required header 400, without the proxy.
C15_OnlyValidRequestsReachUpstream ==
    [][\A lookup \in Routes \cup {RouteNotFound}, method \in HTTPMethods,
          headers \in HeaderSets, upstream \in UpstreamOutcomes :
          ServeAPI(lookup, method, headers, upstream) =>
             LET found == lookup # RouteNotFound /\ lookup.isActive IN
             /\ (ReachesProxy \/ response'.contacted) =>
                   /\ found
                   /\ method \in lookup.methods
                   /\ lookup.requiredHeaders \subseteq headers
             /\ (found /\ method \notin lookup.methods) =>
                   response'.status = 405 /\ ~ReachesProxy
             /\ (/\ found
                 /\ method \in lookup.methods
                 /\ ~(lookup.requiredHeaders \subseteq headers)) =>
                   response'.status = 400 /\ ~ReachesProxy]_vars

\* a request was answered 405 after another one had reached a breaker
C15_Witness ==
    /\ response.status = 405
    /\ ~response.contacted
    /\ circuitBreakers # <<>>

(***************************************************************************)
(* Properties of the route catalogue                                       *)
(***************************************************************************)

\* some piece of the pattern between two slashes is a placeholder
HasPlaceholder(P) ==
    \E i \in 1..Len(Split(P)) : HasPrefix(Split(P)[i], <<":">>)

\* the three rules of path matching, as the catalogue's contract words them
SpecifiedMatch(P, R) ==
    \/ P = R
    \/ /\ HasSuffix(P, <<"/", "*">>)
       /\ HasPrefix(R, SubSeq(P, 1, Len(P) - 2))
    \/ /\ HasPlaceholder(P)
       /\ Len(Split(P)) = Len(Split(R))
       /\ \A i \in 1..Len(Split(P)) :
             IF HasPrefix(Split(P)[i], <<":">>)
             THEN Split(R)[i] # <<>>
             ELSE Split(P)[i] = Split(R)[i]

\* C14: MatchRoutePath(P, R) is true exactly when P = R, or P ends with /*
\* and R starts with P minus the /*, or P has a placeholder segment, P and R
\* have the same number of segments, the other segments are equal and every
\* segment of R at a placeholder position is non-empty.
C14_MatchesExactlyAsSpecified ==
    matchDone => (matched <=> SpecifiedMatch(registeredPath, requestPath))

\* the lookup of a request path that ended the last step
LookedUp == lastCall.op = "GetRouteByPath"

\* C11: after a successful UpdateRoute(p) that changed the route, the next
\* GetRouteByPath(p) does not return the descriptor stored before the update.
C11_UpdateThenLookupIsFresh ==
    (LookedUp /\ lastCall.sinceOp = "UpdateRoute" /\ lastCall.err = "nil")
        => asLookup(lastCall.route) # asLookup(lastCall.before)

\* C12: after a successful AddRoute(r) the next GetRouteByPath(r.path) is not
\* answered from the cache entry "route:<r.path>" but resolved from the
\* store, and it returns r.
C12_AddThenLookupReturnsAdded ==
    (LookedUp /\ lastCall.sinceOp = "AddRoute")
        => /\ ~lastCall.fromCache
           /\ lastCall.storeUp =>
                 (lastCall.err = "nil" /\ lastCall.route.path = lastCall.path)

\* 1 for the exact pattern of a path, 2 for a placeholder pattern, 3 for a
\* wildcard pattern
Priority(pattern, path) ==
    IF pattern = path THEN 1
    ELSE IF HasSuffix(chars(pattern), <<"/", "*">>) THEN 3 ELSE 2

\* C13: of the active routes whose patterns match the request path,
\* GetRouteByPath returns one of the best priority, exact over placeholder
\* over wildcard, in whatever order the store returned them.
C13_ExactOverPlaceholderOverWildcard ==
    (LookedUp /\ ~lastCall.fromCache /\ lastCall.err = "nil")
        => \A i \in DOMAIN lastCall.active :
              MatchRoutePath(chars(lastCall.active[i].path),
                             chars(lastCall.path))
                 => Priority(lastCall.route.path, lastCall.path)
                       <= Priority(lastCall.active[i].path, lastCall.path)

\* the registered patterns that match the path
RegisteredFor(path) ==
    {p \in Patterns :
        rows[p] # NoRow /\ MatchRoutePath(chars(p), chars(path))}

\* C16: a request whose path matches only routes registered with
\* isActive = false is answered 503 and the upstream is not contacted.
C16_InactiveRouteGets503 ==
    (/\ LookedUp
     /\ RegisteredFor(lastCall.path) # {}
     /\ \A p \in RegisteredFor(lastCall.path) : ~requested[p].isActive)
        => response.status = 503 /\ ~response.contacted

\* C17: a store error during the lookup of the route is answered 500, and
\* 404 answers only a lookup that found no matching route.
C17_StoreErrorGets500 ==
    LookedUp
        => /\ lastCall.err = "store error" => response.status = 500
           /\ response.status = 404 => lastCall.err = "ErrRouteNotFound"

\* C18: a metrics update that was applied raised the stored callCount by 1
\* and the stored totalResponse by the duration of the request.
C18_MetricsUpdateAdds ==
    (lastCall.op = "UpdateMetrics" /\ lastCall.err = "nil")
        => /\ rows[lastCall.path].callCount = lastCall.before.callCount + 1
           /\ rows[lastCall.path].totalResponse =
                 lastCall.before.totalResponse + lastCall.duration

(***************************************************************************)
(* Properties of the Director                                              *)
(***************************************************************************)

\* C19: the request sent upstream carries Host = the host of the route's
\* serviceURL, X-Forwarded-Host = the inbound Host, X-Forwarded-For = the
\* client IP and nothing else, the inbound path and query string, and every
\* header listed in route.headers that the inbound request carries.
C19_UpstreamRequestHeaders ==
    forwarded =>
        /\ outreq.Host = hostOf(target.serviceURL)
        /\ outreq.XForwardedHost = inbound.Host
        /\ outreq.XForwardedFor = <<Addr(inbound.RemoteAddr.ip, "")>>
        /\ outreq.Path = inbound.Path
        /\ outreq.RawQuery = inbound.RawQuery
        /\ \A h \in target.headers :
              inbound.Header[h] # "" => outreq.Header[h] = inbound.Header[h]

(***************************************************************************)
(* Properties of the policy pipeline                                       *)
(***************************************************************************)

\* the policies of the pipeline and the proxy, in their specified order
PolicyOrder ==
    <<"Recovery", "Tracing", "Metrics", "SecurityHeaders", "Authenticate",
      "IPRateLimit", "APIRateLimit", "UserRateLimit", "ValidateHeaders",
      "Proxy">>

\* C20: a request that reached the proxy went through Recovery, Tracing,
\* Metrics, Security headers, Authentication, IP rate limit, API rate limit,
\* User rate limit and Header validation, in this order, before it; and
\* after a policy wrote the response no later policy ran.
C20_PoliciesRunInOrder ==
    /\ (\E i \in DOMAIN ran : ran[i] = "Proxy") =>
          SelectSeq(ran, LAMBDA h :
              \E i \in DOMAIN PolicyOrder : PolicyOrder[i] = h) = PolicyOrder
    /\ written = 401 => ran[Len(ran)] = "Authenticate"

\* C21: a request to an admin route with a valid token of a user whose role
\* is not "admin" is answered 403 and the admin handler does not run.
C21_NonAdminRejected ==
    (ctxUser # "" /\ ~IsAdmin(ctxUser))
        => /\ \A i \in DOMAIN ran : ran[i] # "ListAPIs"
           /\ index = 0 => written = 403

(***************************************************************************)
(* Properties of the catalogue's reads through the cache                   *)
(***************************************************************************)

\* C23: an error of the cache on read never fails a catalogue read: neither
\* GetRoutes nor GetRouteByPath returns the cache's error, both go on to
\* the store.
C23_CacheErrorNeverFailsRead ==
    lastCall.op \in {"GetRoutes", "GetRouteByPath"}
        => lastCall.err # "cache error"

\* C24: when cache.Get("routes") fails, GetRoutes returns that error and no
\* routes, and does not query the repository.
C24_CacheErrorIsReturned ==
    [][\A order \in RowOrders, storeUp \in BOOLEAN :
          GetRoutes(order, storeUp, FALSE)
              => /\ lastCall'.err = "cache error"
                 /\ lastCall'.active = <<>>
                 /\ lastCall'.repo = <<>>
                 /\ cachedRoutes' = cachedRoutes]_vars

\* GetRoutes met a cache error while the store was reachable and held an
\* active route
C24_Witness ==
    /\ lastCall.op = "GetRoutes"
    /\ lastCall.err = "cache error"
    /\ lastCall.storeUp
    /\ \E p \in Patterns : rows[p] # NoRow /\ rows[p].isActive

C26_MissUsesSingleRouteQuery ==
    (lastCall.op = "GetRouteByPath" /\ ~lastCall.fromCache /\ lastCall.storeUp)
        => /\ lastCall.repo = <<"GetRouteByPath">>
           /\ lastCall.route = repoGetRouteByPath(rows, lastCall.path)
           /\ lastCall.route # NoRow =>
                 lastCall.stored =
                    <<[key |-> "route:", path |-> lastCall.path, ttl |-> 5]>>

\* C30: after the admin clear-cache operation succeeds no entry "routes"
\* or "route:<path>" is left in the cache, so that the next GetRoutes and
\* the next GetRouteByPath of any request path are answered from the store.
C30_ClearCacheLeavesNoEntry ==
    (lastCall.op = "ClearCache" /\ lastCall.err = "nil")
        => /\ cachedRoutes = NoList
           /\ \A p \in DOMAIN cachedRoute : cachedRoute[p] = NoRow

\* C34: after a successful UpdateRoute or DeleteRoute of a route whose
\* pattern P has a placeholder or a trailing wildcard, no later
\* GetRouteByPath(R) of a request path R # P that was resolved to P before
\* the mutation returns the descriptor from before the mutation out of the
\* cache: what the cache answers for R is what the store holds for P.
C34_PatternMutationReachesRequestPaths ==
    (LookedUp /\ lastCall.fromCache /\ lastCall.path # lastCall.route.path)
        => /\ rows[lastCall.route.path] # NoRow
           /\ asLookup(rows[lastCall.route.path]) = asLookup(lastCall.route)

\* C35: after a successful UpdateRoute(r) the stored descriptor of r.path
\* equals r in serviceURL, methods, requiredHeaders and isActive; an update
\* with isActive = false deactivates the route, which GetRoutes then no
\* longer returns.
C35_UpdateStoresTheDescriptor ==
    (lastCall.op = "UpdateRoute" /\ lastCall.err = "nil")
        => /\ asLookup(rows[lastCall.path])
                 = asLookup(requested[lastCall.path])
           /\ ~requested[lastCall.path].isActive =>
                 \A o \in RowOrders :
                    \A i \in DOMAIN repoGetRoutes(rows, o) :
                       repoGetRoutes(rows, o)[i].path # lastCall.path

\* C37: the metrics update issued after a proxied request is keyed by the
\* registered path of the route that served the request: while that route
\* is still stored and the store answers, the update is applied to its row
\* and does not end in NotFound, also when the route was matched through a
\* placeholder or a wildcard.
C37_MetricsUpdateKeyedByRoute ==
    (/\ lastCall.op = "UpdateMetrics"
     /\ lastCall.storeUp
     /\ rows[lastCall.route.path] # NoRow)
        => /\ lastCall.err = "nil"
           /\ lastCall.path = lastCall.route.path

(***************************************************************************)
(* Properties of the health surface                                        *)
(***************************************************************************)

\* C22: readiness answers 200 when the critical dependency (the database)
\* passes its check and 503 when it fails; a failure of the cache is
\* reported in the body and never turns the answer into 503.
C22_ReadinessFollowsCriticalChecks ==
    readiness # 0 =>
        /\ readiness = (IF env.dbUp THEN 200 ELSE 503)
        /\ checks["cache"] = (IF env.cacheUp THEN "UP" ELSE "DOWN")

(***************************************************************************)
(* Properties of Cache.Get                                                 *)
(***************************************************************************)

\* C27: in the in-process cache and in the shared cache alike, a Get whose
\* stored value cannot be decoded into the destination returns found = true
\* together with an error.
C27_UndecodableIsFoundWithError ==
    (/\ cgResult.backend # ""
     /\ cgEntry # NoEntry
     /\ redisUp
     /\ ~jsonUnmarshal(jsonMarshal(cgEntry), cgDest))
        => cgResult.found /\ cgResult.err # "nil"

(***************************************************************************)
(* Properties of the breaker registry                                      *)
(***************************************************************************)

\* C28: however concurrent first requests for one serviceURL interleave,
\* the registry creates exactly one breaker for it, every caller is handed
\* that instance, and the instance is never removed or replaced.
C28_OneBreakerPerServiceURL ==
    /\ \A u \in RegistryURLs :
          /\ made[u] <= 1
          /\ cbRegistry[u] = made[u]
    /\ \A g \in Requesters :
          regGot[g] # 0 => regGot[g] = 1 /\ cbRegistry[regURL[g]] = 1

\* two callers both missed the first lookup for the same serviceURL, went
\* on to the write lock, and both have their breaker
C28_Witness ==
    \E g, h \in Requesters :
        /\ g # h
        /\ regURL[g] = regURL[h]
        /\ regSlow[g] /\ regSlow[h]
        /\ regGot[g] # 0 /\ regGot[h] # 0

(***************************************************************************)
(* Properties of the route descriptors                                     *)
(***************************************************************************)

\* an absolute URL: a scheme and a host
IsAbsoluteURL(serviceURL) == serviceURL \in {"http://a"}

\* C29: every route descriptor the catalogue holds, whether created or
\* updated through the admin API or loaded from the routes JSON file, has a
\* path that is not empty, at least one method and an absolute serviceURL.
C29_HeldDescriptorsAreValid ==
    \A p \in DescriptorPaths :
        descriptors[p] # NoDescriptor
            => /\ descriptors[p].path # ""
               /\ descriptors[p].methods # {}
               /\ IsAbsoluteURL(descriptors[p].serviceURL)

(***************************************************************************)
(* Properties of the breaker's mutex and of its counters                   *)
(***************************************************************************)

\* C31: on every path through allowRequest each acquisition of the mutex
\* is released once, in its mode, and nothing releases a lock that is not
\* held: the read locks the mutex counts are those of the goroutines that
\* are between their RLock and its release, and no RUnlock finds the mutex
\* unlocked.
C31_EveryLockReleasedOnce ==
    /\ ~crashed
    /\ \A g \in Goroutines : pc[g] # "fatal"
    /\ readerCount = Cardinality({g \in Goroutines : pc[g] = "rlocked"})

\* C32: the breaker leaves half-open through recordResult only when the
\* result recorded belongs to a call that was admitted while the breaker
\* was half-open; the result of a call admitted earlier, while closed, that
\* completes once the breaker is half-open leaves the state alone.
C32_OnlyTrialResultsLeaveHalfOpen ==
    [][ \A g \in Goroutines :
          (Records(g) /\ cb.state = StateHalfOpen
             /\ admittedIn[g] # StateHalfOpen)
          => cb'.state = StateHalfOpen
      ]_vars

\* C40: in every reachable state of the breaker, under any interleaving of
\* Execute calls and Reset, 0 <= failCount <= maxFails, and
\* failCount < maxFails whenever the breaker is closed.
C40_FailCountBounded ==
    /\ 0 <= cb.failCount
    /\ cb.failCount <= cb.maxFails
    /\ cb.state = StateClose => cb.failCount < cb.maxFails

\* C40 witness: the failure of a half-open trial has re-opened the breaker,
\* which still holds the maxFails failures counted while it was closed.
C40_Witness ==
    /\ lastChange = <<StateHalfOpen, StateOpen, "recordResult">>
    /\ cb.state = StateOpen
    /\ cb.failCount = cb.maxFails

(***************************************************************************)
(* Properties of the catalogue under concurrent readers and a writer       *)
(***************************************************************************)

\* C33: when GetRouteByPath(p) has run beside a successful UpdateRoute(p)
\* or DeleteRoute(p) and all of them have returned, the cache entry
\* "route:p" is absent or holds the descriptor the store holds after the
\* mutation: a reader that loaded the old descriptor before the commit
\* does not put it back after the writer's invalidation.
C33_NoStaleEntryAfterRace ==
    (wrPc = "idle" /\ \A r \in Readers : rdPc[r] = "idle")
        => cacheEntry = NoRow \/ cacheEntry = storeRow

(***************************************************************************)
(* Properties of the in-flight gauge                                       *)
(***************************************************************************)

\* C36: with no request in the handler chain every (path, method) gauge is
\* back at its initial value, whichever way the requests before ended
C36_GaugeBalanced ==
    chainPc = "idle" => \A l \in GaugeLabels : activeRequests[l] = 0

(***************************************************************************)
(* Properties of Allow's validation                                        *)
(***************************************************************************)

\* C38: Allow returns without a runtime fault for every limit > 0 and every
\* window > 0, windows below one second included, and it reports a
\* validation error only for a limit <= 0 or a window <= 0.
C38_AllowReturnsForEveryWindow ==
    /\ rlResponse.cause # "panic"
    /\ rlResponse.err \in {"invalid limit", "invalid period"}
          => limitConfig.Limit <= 0 \/ limitConfig.Period <= 0

(***************************************************************************)
(* Properties of the parallel checks of ReadinessCheck                     *)
(***************************************************************************)

\* C39: the checks that run in parallel never write the shared checks map
\* at the same time, so the process is not ended by the runtime, and the
\* answer is 503 whenever a critical check failed, whatever order the
\* checks finish in.
C39_ChecksWriteOneAtATime ==
    /\ Cardinality({d \in HealthChecks : hpc[d] = "writing"}) <= 1
    /\ ~crashed
    /\ readiness # 0 =>
          ((\E d \in HealthChecks : Critical(d) /\ checkFails(d, env))
              => readiness = 503)

=========================================================================
